---- MODULE Spec2Model ----
(***************************************************************************)
(* Combat session engine of gelatinous: combatant rosters, proximity,      *)
(* grapple links, removal with auto-retargeting, orphan detection and      *)
(* drag transfer through exits.                                            *)
(*                                                                         *)
(* A character is identified by its dbref (char.id); a roster entry is the *)
(* dict built by add_combatant.  One combat handler exists per room.       *)
(***************************************************************************)
EXTENDS Integers, Sequences, FiniteSets, TLC

\* ------------------------------------------------------------------ bounds
MaxRoll ==
    2
MaxInit ==
    2
MaxSteps ==
    3

MaxDown ==
    1

MaxArmed ==
    1

\* ------------------------------------------------------------- universe
Chars ==
    {1, 2, 3}
Rooms ==
    {"r1", "r2"}
\* get_character_dbref(None): the empty reference
None ==
    0
\* dbref of an object that no longer exists (search_object finds nothing)
Ghost ==
    9
NoHandler ==
    "none"
\* no medical state is under observation / nothing was returned yet
NoMedical ==
    [organs |-> <<>>, conditions |-> <<>>]
NoReturn ==
    [kind |-> "none"]
VARIABLES
    roster,       \* handler.db.combatants, per room
    active,       \* handler._active_combatants_list, per room (<<>> = not set)
    turn,         \* characters still to act in the round in progress, per room
    running,      \* handler.db.combat_is_running, per room
    prox,         \* char.ndb.in_proximity_with
    href,         \* char.ndb.combat_handler
    loc,          \* char.location
    dead,         \* char.is_dead() or char.is_unconscious()
    ranged,       \* the wielded weapon's db.is_ranged
    aiming_at,    \* char.ndb.aiming_at
    aimed_at_by,  \* char.ndb.aimed_at_by
    error,        \* an exception escaped a handler
    last,         \* the operation that produced this state
    steps,        \* player commands issued so far
    medical_state, \* character.medical_state of the character under treatment
    returned      \* value returned by the last medical operation

vars ==
    <<roster, active, turn, running, prox, href, loc, dead, ranged,
      aiming_at, aimed_at_by, error, last, steps, medical_state, returned>>

\* The program state as one value, for the operators that model functions.
St ==
    [roster |-> roster, active |-> active, running |-> running, prox |-> prox,
     href |-> href, loc |-> loc, dead |-> dead, ranged |-> ranged,
     aiming_at |-> aiming_at, aimed_at_by |-> aimed_at_by, error |-> error]

Commit(s) ==
    /\ roster' = s.roster
    /\ active' = s.active
    /\ running' = s.running
    /\ prox' = s.prox
    /\ href' = s.href
    /\ loc' = s.loc
    /\ dead' = s.dead
    /\ ranged' = s.ranged
    /\ aiming_at' = s.aiming_at
    /\ aimed_at_by' = s.aimed_at_by
    /\ error' = s.error
    /\ UNCHANGED <<medical_state, returned>>

\* ------------------------------------------------------------ helpers
get_character_dbref(char) ==
    char

get_character_by_dbref(dbref) ==
    IF dbref \in Chars THEN dbref ELSE None

\* next((e for e in combatants if e["char"] == c), None), as an index (0 = None)
IndexOf(L, c) ==
    IF \E i \in 1..Len(L) : L[i].char = c
    THEN CHOOSE i \in 1..Len(L) :
            /\ L[i].char = c
            /\ \A j \in 1..(i - 1) : L[j].char # c
    ELSE 0

CharsOf(L) ==
    {L[i].char : i \in 1..Len(L)}

\* the entry dict add_combatant builds
NewEntry(char, init, target, grappling, grappled_by, yielding) ==
    [char |-> char, initiative |-> init, target |-> target,
     grappling |-> grappling, grappled_by |-> grappled_by,
     yielding |-> yielding, action |-> "none", initiated |-> FALSE]

\* world.combat.proximity.establish_proximity: both sets gain the other
establish_proximity(s, a, b) ==
    IF a = b THEN s
    ELSE [s EXCEPT !.prox = [c \in Chars |->
                IF c = a THEN s.prox[c] \cup {b}
                ELSE IF c = b THEN s.prox[c] \cup {a}
                ELSE s.prox[c]]]

\* world.combat.proximity.clear_all_proximity: cleared on both sides
clear_all_proximity(s, char) ==
    [s EXCEPT !.prox = [c \in DOMAIN s.prox |->
                IF c = char THEN {} ELSE s.prox[c] \ {char}]]

clear_character_proximity(s, character) ==
    IF s.prox[character] # {}
    THEN [s EXCEPT !.prox = [c \in Chars |->
                IF c = character THEN {}
                ELSE IF c \in s.prox[character] THEN s.prox[c] \ {character}
                ELSE s.prox[c]]]
    ELSE s

\* ------------------------------------------- validate_and_cleanup_grapple_state
\* One iteration of the loop over enumerate(combatants_list).  entry is the
\* element read at the start of the iteration; every "combatants_list[i] =
\* dict(entry)" copies that element, not the list's current one.
ValidateEntry(L, i) ==
    LET entry == L[i]
        char == entry.char
        valid_combat_chars == CharsOf(L)
        grappling_dbref == entry.grappling
        grappled_by_dbref == entry.grappled_by
        grappling_target == get_character_by_dbref(grappling_dbref)
        grappler == get_character_by_dbref(grappled_by_dbref)
        L1 == IF grappling_dbref = None THEN L
              ELSE IF \/ grappling_target = None
                      \/ grappling_target = char
                      \/ grappling_target \notin valid_combat_chars
                   THEN [L EXCEPT ![i] = [entry EXCEPT !.grappling = None]]
                   ELSE LET ti == IndexOf(L, grappling_target)
                        IN IF L[ti].grappled_by # get_character_dbref(char)
                           THEN [L EXCEPT ![ti].grappled_by = get_character_dbref(char)]
                           ELSE L
        L2 == IF grappled_by_dbref = None THEN L1
              ELSE IF \/ grappler = None
                      \/ grappler = char
                      \/ grappler \notin valid_combat_chars
                   THEN [L1 EXCEPT ![i] = [entry EXCEPT !.grappled_by = None]]
                   ELSE LET gi == IndexOf(L1, grappler)
                        IN IF L1[gi].grappling # get_character_dbref(char)
                           THEN [L1 EXCEPT ![gi].grappling = get_character_dbref(char)]
                           ELSE L1
    IN L2

RECURSIVE ValidateFrom(_, _)
ValidateFrom(L, i) ==
    IF i > Len(L) THEN L ELSE ValidateFrom(ValidateEntry(L, i), i + 1)

validate_and_cleanup_grapple_state(L) ==
    ValidateFrom(L, 1)

\* ------------------------------------------------------------ grapple API
break_grapple(L, grappler, victim) ==
    IF grappler = None /\ victim = None THEN L
    ELSE [i \in 1..Len(L) |->
            LET e == L[i]
                e1 == IF grappler # None /\ e.char = grappler /\ e.grappling # None
                      THEN [e EXCEPT !.grappling = None] ELSE e
            IN IF victim # None /\ e1.char = victim /\ e1.grappled_by # None
               THEN [e1 EXCEPT !.grappled_by = None] ELSE e1]

\* establish_grapple: TRUE when the call is refused
EstablishRefused(L, grappler, victim) ==
    \/ grappler = victim
    \/ IndexOf(L, grappler) = 0
    \/ IndexOf(L, victim) = 0
    \/ LET ge == L[IndexOf(L, grappler)]
       IN ge.grappling # None /\ get_character_by_dbref(ge.grappling) # None
    \/ LET ve == L[IndexOf(L, victim)]
       IN ve.grappled_by # None /\ get_character_by_dbref(ve.grappled_by) # None

establish_grapple(s, h, grappler, victim) ==
    IF EstablishRefused(s.roster[h], grappler, victim) THEN s
    ELSE LET L == s.roster[h]
             L1 == [i \in 1..Len(L) |->
                      IF L[i].char = grappler
                      THEN [L[i] EXCEPT !.grappling = victim, !.yielding = TRUE]
                      ELSE IF L[i].char = victim
                      THEN [L[i] EXCEPT !.grappled_by = grappler, !.yielding = TRUE]
                      ELSE L[i]]
         IN establish_proximity([s EXCEPT !.roster[h] = L1], grappler, victim)

\* ------------------------------------------------- cleanup_combatant_state
\* entry is the removed character's entry as remove_combatant found it;
\* break_grapple works on handler.db.combatants.
cleanup_combatant_state(s, char, entry, h) ==
    LET s1 == clear_all_proximity(s, char)
        grappling == get_character_by_dbref(entry.grappling)
        grappled_by == get_character_by_dbref(entry.grappled_by)
        La == IF grappling # None
              THEN break_grapple(s1.roster[h], char, grappling)
              ELSE s1.roster[h]
        Lb == IF grappled_by # None
              THEN break_grapple(La, grappled_by, char)
              ELSE La
    IN [s1 EXCEPT !.roster[h] = Lb,
                  !.prox[char] = {},
                  !.href[char] = NoHandler]

\* ---------------------------------------------------------- remove_combatant
\* The candidates of the auto-retarget of L[k].char after char was removed:
\* indices of entries that target L[k].char, in list order.
RangedAttackers_AnyOther(L, k, char, s) ==
    {j \in 1..Len(L) :
        /\ L[j].char # L[k].char
        /\ L[j].char # char
        /\ ~s.dead[L[j].char]}

RangedAttackers(L, k, char, s) ==
    {j \in 1..Len(L) :
        /\ L[j].char # L[k].char
        /\ L[j].char # char
        /\ ~s.dead[L[j].char]
        /\ L[j].target = get_character_dbref(L[k].char)}

ProximityAttackers(L, k, char, s) ==
    {j \in RangedAttackers(L, k, char, s) : L[j].char \in s.prox[L[k].char]}

FirstOf(L, idxs) ==
    IF idxs = {} THEN None
    ELSE L[CHOOSE j \in idxs : \A j2 \in idxs : j <= j2].char

\* a retarget that takes the first attacker whatever the weapon
NewTarget_FirstAttacker(L, k, char, s) ==
    FirstOf(L, RangedAttackers(L, k, char, s))

NewTarget(L, k, char, s) ==
    IF s.ranged[L[k].char]
    THEN FirstOf(L, RangedAttackers(L, k, char, s))
    ELSE IF ProximityAttackers(L, k, char, s) # {}
         THEN FirstOf(L, ProximityAttackers(L, k, char, s))
         ELSE FirstOf(L, RangedAttackers(L, k, char, s))

\* one iteration of "for other_entry in combatants"
RetargetEntry(L, k, char, s) ==
    IF L[k].target = get_character_dbref(char)
    THEN LET Lc == [L EXCEPT ![k].target = None]
             new_target == NewTarget(Lc, k, char, s)
         IN IF new_target # None
            THEN [Lc EXCEPT ![k].target = get_character_dbref(new_target),
                            ![k].action = "none",
                            ![k].yielding = FALSE]
            ELSE Lc
    ELSE L

RECURSIVE RetargetFrom(_, _, _, _)
RetargetFrom(L, k, char, s) ==
    IF k > Len(L) THEN L
    ELSE RetargetFrom(RetargetEntry(L, k, char, s), k + 1, char, s)

\* the body of remove_combatant once the character's entry was found
RemoveFound(s, h, char, entry) ==
    LET useActive == s.active[h] # <<>>
        s1 == cleanup_combatant_state(s, char, entry, h)
        L0 == IF useActive THEN s1.active[h] ELSE s1.roster[h]
        L1 == RetargetFrom(L0, 1, char, s1)
        rest == SelectSeq(L1, LAMBDA e : e.char # char)
    IN [s1 EXCEPT !.roster[h] = rest,
                  !.active[h] = IF useActive THEN L1 ELSE @,
                  !.href[char] = IF @ = h THEN NoHandler ELSE @,
                  !.running[h] = IF Len(rest) = 0 THEN FALSE ELSE @]

\* without the "not found" return the lookups on a missing entry raise
remove_combatant_Unguarded(s, h, char) ==
    LET combatants == IF s.active[h] # <<>> THEN s.active[h] ELSE s.roster[h]
        idx == IndexOf(combatants, char)
    IN IF idx = 0 THEN [s EXCEPT !.error = TRUE]
       ELSE RemoveFound(s, h, char, combatants[idx])

remove_combatant(s, h, char) ==
    LET combatants == IF s.active[h] # <<>> THEN s.active[h] ELSE s.roster[h]
        idx == IndexOf(combatants, char)
    IN IF idx = 0 THEN s
       ELSE RemoveFound(s, h, char, combatants[idx])

\* ------------------------------------- detect_and_remove_orphaned_combatants
\* an orphan check that lets a yielding combatant stay
OrphanedChars_YieldExempt(L) ==
    LET targeted_dbrefs == {L[i].target : i \in 1..Len(L)} \ {None}
    IN SelectSeq([i \in 1..Len(L) |-> L[i].char],
                 LAMBDA c : LET e == L[IndexOf(L, c)]
                            IN ~(\/ e.target # None
                                 \/ e.grappling # None
                                 \/ e.grappled_by # None
                                 \/ e.yielding
                                 \/ get_character_dbref(c) \in targeted_dbrefs))

OrphanedChars(L) ==
    LET targeted_dbrefs == {L[i].target : i \in 1..Len(L)} \ {None}
    IN SelectSeq([i \in 1..Len(L) |-> L[i].char],
                 LAMBDA c : LET e == L[IndexOf(L, c)]
                            IN ~(\/ e.target # None
                                 \/ e.grappling # None
                                 \/ e.grappled_by # None
                                 \/ get_character_dbref(c) \in targeted_dbrefs))

RECURSIVE RemoveAll(_, _, _)
RemoveAll(s, h, cs) ==
    IF cs = <<>> THEN s
    ELSE RemoveAll(remove_combatant(s, h, Head(cs)), h, Tail(cs))

detect_and_remove_orphaned_combatants(s, h) ==
    IF s.roster[h] = <<>> THEN s
    ELSE RemoveAll(s, h, OrphanedChars(s.roster[h]))

\* ------------------------------------------------------------- add_combatant
\* an add_combatant that never finds the character in the roster
already_in_combat_Never(L, char) ==
    FALSE

\* "for entry in combatants: if entry.get(DB_CHAR) == char"
already_in_combat(L, char) ==
    char \in CharsOf(L)

add_combatant(s, h, char, target, initial_grappling, initial_grappled_by, initial_is_yielding, init) ==
    LET tgt == IF target # None /\ char = target THEN None ELSE target
    IN IF already_in_combat(s.roster[h], char) THEN s
       ELSE LET entry == NewEntry(char, init, get_character_dbref(tgt),
                                  get_character_dbref(initial_grappling),
                                  get_character_dbref(initial_grappled_by),
                                  initial_is_yielding)
                s1 == [s EXCEPT !.roster[h] = Append(@, entry),
                                !.href[char] = h]
                s2 == IF initial_grappling # None
                      THEN establish_proximity(s1, char, initial_grappling)
                      ELSE s1
                s3 == IF initial_grappled_by # None
                      THEN establish_proximity(s2, char, initial_grappled_by)
                      ELSE s2
            IN [s3 EXCEPT !.running[h] = TRUE,
                          !.roster[h] = validate_and_cleanup_grapple_state(@)]

\* ------------------------------------------------------ handler accessors
\* CombatHandler.set_target: the character's entry takes the target's dbref
set_target(L, char, target) ==
    IF IndexOf(L, char) = 0 THEN L
    ELSE [L EXCEPT ![IndexOf(L, char)].target = get_character_dbref(target)]

\* ------------------------------------------------- resolve_grapple_initiate
InitiateRollWins_Ties(attacker_roll, defender_roll) ==
    attacker_roll >= defender_roll

\* "if attacker_roll > defender_roll"
InitiateRollWins(attacker_roll, defender_roll) ==
    attacker_roll > defender_roll

\* L is the round's working list, k the acting entry's index.
resolve_grapple_initiate(L, k, s, attacker_roll, defender_roll) ==
    LET char == L[k].char
        target == get_character_by_dbref(L[k].target)
        ti == IndexOf(L, target)
    IN IF target = None THEN L
       ELSE IF ti = 0 THEN L
       ELSE IF target \notin s.prox[char] THEN L
       ELSE IF InitiateRollWins(attacker_roll, defender_roll)
       THEN LET La == [L EXCEPT ![k].grappling = get_character_dbref(target)]
                Lb == [La EXCEPT ![ti].grappled_by = get_character_dbref(char)]
                Lc == [Lb EXCEPT ![ti].target = get_character_dbref(char)]
            IN [Lc EXCEPT ![k].yielding = TRUE]
       ELSE IF L[k].initiated
            THEN LET La == [L EXCEPT ![k].yielding = TRUE]
                 IN [La EXCEPT ![ti].yielding = TRUE]
            ELSE L

\* ----------------------------------------------------- resolve_grapple_join
ContestRollWins_Ties(new_grappler_roll, current_grappler_roll) ==
    new_grappler_roll >= current_grappler_roll

\* "if new_grappler_roll > current_grappler_roll"
ContestRollWins(new_grappler_roll, current_grappler_roll) ==
    new_grappler_roll > current_grappler_roll

resolve_grapple_join(L, k, s, new_grappler_roll, current_grappler_roll) ==
    LET char == L[k].char
        target == get_character_by_dbref(L[k].target)
        ti == IndexOf(L, target)
    IN IF target = None THEN L
       ELSE IF ti = 0 \/ L[ti].grappled_by = None THEN L
       ELSE LET current_grappler == get_character_by_dbref(L[ti].grappled_by)
                gi == IndexOf(L, current_grappler)
            IN IF current_grappler = None THEN L
               ELSE IF gi = 0 THEN L
               ELSE IF target \notin s.prox[char] THEN L
               ELSE IF ContestRollWins(new_grappler_roll, current_grappler_roll)
               THEN LET La == [L EXCEPT ![k].grappling = get_character_dbref(target),
                                        ![k].yielding = TRUE]
                        Lb == [La EXCEPT ![gi].grappling = None]
                    IN [Lb EXCEPT ![ti].grappled_by = get_character_dbref(char)]
               ELSE IF L[k].initiated
                    THEN [L EXCEPT ![k].yielding = TRUE]
                    ELSE L

\* -------------------------------------------------- resolve_release_grapple
resolve_release_grapple_Unyield(L, k) ==
    LET grappling_target == get_character_by_dbref(L[k].grappling)
        ti == IndexOf(L, grappling_target)
    IN IF grappling_target = None THEN L
       ELSE IF ti = 0 THEN L
       ELSE [L EXCEPT ![k].grappling = None, ![k].yielding = FALSE,
                      ![ti].grappled_by = None]

resolve_release_grapple(L, k) ==
    LET grappling_target == get_character_by_dbref(L[k].grappling)
        ti == IndexOf(L, grappling_target)
    IN IF grappling_target = None THEN L
       ELSE IF ti = 0 THEN L
       ELSE LET La == [L EXCEPT ![k].grappling = None]
            IN [La EXCEPT ![ti].grappled_by = None]

\* ------------------------------------------------------- CmdGrapple.func
GrappleType(target_entry) ==
    IF get_character_by_dbref(target_entry.grappling) # None
    THEN "grapple_takeover"
    ELSE IF get_character_by_dbref(target_entry.grappled_by) # None
    THEN "grapple_join"
    ELSE "grapple_initiate"

CmdGrapple_func(s, caller, target, i1, i2) ==
    LET h == s.loc[caller]
        caller_is_in_combat == caller \in CharsOf(s.roster[h])
        target_is_in_combat == target \in CharsOf(s.roster[h])
        s1 == IF ~caller_is_in_combat
              THEN add_combatant(
                     add_combatant(s, h, caller, None, None, None, FALSE, i1),
                     h, target, None, None, None, FALSE, i2)
              ELSE IF ~target_is_in_combat
              THEN add_combatant(s, h, target, None, None, None, FALSE, i2)
              ELSE s
        L == s1.roster[h]
        ci == IndexOf(L, caller)
        ti == IndexOf(L, target)
        La == [L EXCEPT ![ci].yielding = FALSE,
                        ![ci].initiated = ~caller_is_in_combat]
        Lb == [La EXCEPT ![ti].initiated = ~target_is_in_combat]
        Lc == [Lb EXCEPT ![ci].action = GrappleType(Lb[ti])]
    IN [s1 EXCEPT !.roster[h] = set_target(Lc, caller, target)]

\* --------------------------------------------------- CmdReleaseGrapple.func
CanRelease(s, caller) ==
    /\ s.href[caller] # NoHandler
    /\ IndexOf(s.roster[s.href[caller]], caller) # 0
    /\ LET L == s.roster[s.href[caller]]
       IN get_character_by_dbref(L[IndexOf(L, caller)].grappling) # None

CmdReleaseGrapple_func(s, caller) ==
    IF ~CanRelease(s, caller) THEN s
    ELSE LET h == s.href[caller]
         IN [s EXCEPT !.roster[h][IndexOf(s.roster[h], caller)].action = "release_grapple"]

\* ---------------------------------------------------------- Exit.at_traverse
\* Aiming lock check: TRUE when an aimer in the same room blocks the move.
AimLocked(s, c) ==
    /\ s.aimed_at_by[c] # None
    /\ s.loc[s.aimed_at_by[c]] = s.loc[c]

\* A stale lock (aimer elsewhere) is cleared, then the traverser's own aim.
ClearAimOnMove(s, c) ==
    LET aimer == s.aimed_at_by[c]
        s1 == IF aimer # None
              THEN [s EXCEPT !.aimed_at_by[c] = None,
                             !.aiming_at[aimer] = IF @ = c THEN None ELSE @]
              ELSE s
        old_aim_target == s1.aiming_at[c]
    IN IF old_aim_target # None
       THEN [s1 EXCEPT !.aiming_at[c] = None,
                       !.aimed_at_by[old_aim_target] = IF @ = c THEN None ELSE @]
       ELSE s1

\* any(e["char"] == traversing_object and handler.get_grappled_by_obj(e) ...)
IsBeingDragged(s, c) ==
    /\ s.href[c] # NoHandler
    /\ \E i \in 1..Len(s.roster[s.href[c]]) :
          /\ s.roster[s.href[c]][i].char = c
          /\ get_character_by_dbref(s.roster[s.href[c]][i].grappled_by) # None

\* a cleanup that empties the mover's set and leaves the others' sets alone
ProximityCleanupOnMove_OneSided(s, c) ==
    IF ~IsBeingDragged(s, c) /\ s.prox[c] # {}
    THEN [s EXCEPT !.prox[c] = {}]
    ELSE s

\* Proximity cleanup on room change
ProximityCleanupOnMove(s, c) ==
    IF ~IsBeingDragged(s, c) /\ s.prox[c] # {}
    THEN [s EXCEPT !.prox = [x \in Chars |->
                IF x = c THEN {}
                ELSE IF x \in s.prox[c] THEN s.prox[x] \ {c}
                ELSE s.prox[x]]]
    ELSE s

IsTargetedByOthersNotVictim(L, c, grappled_victim_obj) ==
    \E i \in 1..Len(L) :
        /\ get_character_by_dbref(L[i].target) = c
        /\ L[i].char # c
        /\ L[i].char # grappled_victim_obj

\* drag conditions that ignore who targets the mover
DragConditions_Untargeted(L, c) ==
    get_character_by_dbref(L[IndexOf(L, c)].grappling) # None /\ L[IndexOf(L, c)].yielding

DragConditions(L, c) ==
    LET e == L[IndexOf(L, c)]
        grappled_victim_obj == get_character_by_dbref(e.grappling)
    IN /\ grappled_victim_obj # None
       /\ e.yielding
       /\ ~IsTargetedByOthersNotVictim(L, c, grappled_victim_obj)

\* the victim resists: the grapple is broken on the entries of the handler
DragResisted(s, h, c, victim) ==
    LET L == s.roster[h]
        La == [L EXCEPT ![IndexOf(L, c)].grappling = None]
    IN [s EXCEPT !.roster[h] = [La EXCEPT ![IndexOf(La, victim)].grappled_by = None]]

\* a transfer that re-adds the victim as yielding whatever it was before
DragTransfer_VictimYields(s, h, c, victim, dest, i1, i2) ==
    LET s1 == [s EXCEPT !.loc[c] = dest, !.loc[victim] = dest]
        s2 == remove_combatant(s1, h, c)
        s3 == remove_combatant(s2, h, victim)
        s4 == add_combatant(s3, dest, c, None, victim, None, TRUE, i1)
        s5 == add_combatant(s4, dest, victim, None, None, c, TRUE, i2)
    IN [s5 EXCEPT !.running[dest] = IF Len(s5.roster[dest]) > 1 THEN TRUE ELSE @]

\* both move, leave the old handler and join the destination's handler
DragTransfer(s, h, c, victim, dest, i1, i2) ==
    LET victim_is_yielding == s.roster[h][IndexOf(s.roster[h], victim)].yielding
        s1 == [s EXCEPT !.loc[c] = dest, !.loc[victim] = dest]
        s2 == remove_combatant(s1, h, c)
        s3 == remove_combatant(s2, h, victim)
        s4 == add_combatant(s3, dest, c, None, victim, None, TRUE, i1)
        s5 == add_combatant(s4, dest, victim, None, None, c, victim_is_yielding, i2)
    IN [s5 EXCEPT !.running[dest] = IF Len(s5.roster[dest]) > 1 THEN TRUE ELSE @]

\* an outcome in which a tied roll lets the victim resist
TraverseOutcome_TiesResist(s, c, resist_roll, drag_roll) ==
    IF AimLocked(s, c) THEN "aim_locked"
    ELSE LET s2 == ProximityCleanupOnMove(ClearAimOnMove(s, c), c)
             h == s2.href[c]
         IN IF h = NoHandler THEN "moved"
            ELSE IF IndexOf(s2.roster[h], c) = 0 THEN "moved"
            ELSE IF ~DragConditions(s2.roster[h], c) THEN "blocked"
            ELSE LET victim == get_character_by_dbref(
                                   s2.roster[h][IndexOf(s2.roster[h], c)].grappling)
                 IN IF IndexOf(s2.roster[h], victim) = 0 THEN "blocked"
                    ELSE IF resist_roll >= drag_roll THEN "drag_resisted"
                    ELSE "dragged"

\* The outcome of a traversal attempt, decided on the state after the aim
\* and proximity stages.
TraverseOutcome(s, c, resist_roll, drag_roll) ==
    IF AimLocked(s, c) THEN "aim_locked"
    ELSE LET s2 == ProximityCleanupOnMove(ClearAimOnMove(s, c), c)
             h == s2.href[c]
         IN IF h = NoHandler THEN "moved"
            ELSE IF IndexOf(s2.roster[h], c) = 0 THEN "moved"
            ELSE IF ~DragConditions(s2.roster[h], c) THEN "blocked"
            ELSE LET victim == get_character_by_dbref(
                                   s2.roster[h][IndexOf(s2.roster[h], c)].grappling)
                 IN IF IndexOf(s2.roster[h], victim) = 0 THEN "blocked"
                    ELSE IF resist_roll > drag_roll THEN "drag_resisted"
                    ELSE "dragged"

at_traverse(s, c, dest, resist_roll, drag_roll, i1, i2) ==
    LET out == TraverseOutcome(s, c, resist_roll, drag_roll)
        s2 == ProximityCleanupOnMove(ClearAimOnMove(s, c), c)
        h == s2.href[c]
        victim == get_character_by_dbref(
                      s2.roster[h][IndexOf(s2.roster[h], c)].grappling)
    IN CASE out = "aim_locked" -> s
         [] out = "moved" -> [s2 EXCEPT !.loc[c] = dest]
         [] out = "blocked" -> s2
         [] out = "drag_resisted" -> DragResisted(s2, h, c, victim)
         [] out = "dragged" -> DragTransfer(s2, h, c, victim, dest, i1, i2)

\* ------------------------------------------------------------ round driver
\* CombatHandler.at_repeat: the working list is a copy of the stored roster;
\* combatants act in descending initiative order, ties by insertion order.
RECURSIVE InitiativeOrder(_)
InitiativeOrder(L) ==
    IF L = <<>> THEN <<>>
    ELSE LET i == CHOOSE i \in 1..Len(L) :
                    /\ \A j \in 1..Len(L) : L[j].initiative <= L[i].initiative
                    /\ \A j \in 1..(i - 1) : L[j].initiative < L[i].initiative
         IN <<L[i].char>> \o
            InitiativeOrder(SubSeq(L, 1, i - 1) \o SubSeq(L, i + 1, Len(L)))

NoRound ==
    \A h \in Rooms : active[h] = <<>>

Last(op, h, a, b, r1, r2) ==
    [op |-> op, h |-> h, a |-> a, b |-> b, r1 |-> r1, r2 |-> r2]

\* number of entries of L whose target is c
Targeting(L, c) ==
    Cardinality({i \in 1..Len(L) : L[i].target = get_character_dbref(c)})

Rolls ==
    1..MaxRoll

Inits ==
    1..MaxInit

\* ------------------------------------------------------------------ actions
Command ==
    /\ NoRound
    /\ steps < MaxSteps
    /\ steps' = steps + 1
    /\ UNCHANGED turn

Grapple(caller, target) ==
    /\ Command
    /\ caller # target
    /\ loc[caller] = loc[target]
    /\ \E i1 \in Inits, i2 \in Inits :
          Commit(CmdGrapple_func(St, caller, target, i1, i2))
    /\ last' = Last("grapple", loc[caller], caller, target, 0, 0)

Release(caller) ==
    /\ Command
    /\ CanRelease(St, caller)
    /\ Commit(CmdReleaseGrapple_func(St, caller))
    /\ last' = Last("release", href[caller], caller, None, 0, 0)

\* a melee approach puts two characters of one room in proximity
Advance(a, b) ==
    /\ Command
    /\ a # b
    /\ loc[a] = loc[b]
    /\ b \notin prox[a]
    /\ Commit(establish_proximity(St, a, b))
    /\ last' = Last("advance", loc[a], a, b, 0, 0)

ClearProximity(c) ==
    /\ Command
    /\ prox[c] # {}
    /\ Commit(clear_character_proximity(St, c))
    /\ last' = Last("clear_proximity", loc[c], c, None, 0, 0)

EstablishGrapple(h, grappler, victim) ==
    /\ Command
    /\ ~EstablishRefused(roster[h], grappler, victim)
    /\ Commit(establish_grapple(St, h, grappler, victim))
    /\ last' = Last("establish_grapple", h, grappler, victim, 0, 0)

\* a combatant leaves combat outside a round (stop, disconnect)
Remove(h, c) ==
    /\ Command
    /\ c \in CharsOf(roster[h])
    /\ Commit(remove_combatant(St, h, c))
    /\ last' = Last("remove", h, c, None, Targeting(roster[h], c), 0)

Traverse(c, dest) ==
    /\ Command
    /\ loc[c] # dest
    /\ \E rr \in Rolls, dr \in Rolls, i1 \in Inits, i2 \in Inits :
          LET outcome == TraverseOutcome(St, c, rr, dr)
              rolled == outcome \in {"drag_resisted", "dragged"}
          IN /\ rolled \/ (rr = 1 /\ dr = 1)
             /\ outcome = "dragged" \/ (i1 = 1 /\ i2 = 1)
             /\ Commit(at_traverse(St, c, dest, rr, dr, i1, i2))
             /\ last' = Last(outcome, loc[c], c, dest,
                             IF rolled THEN rr ELSE 0, IF rolled THEN dr ELSE 0)

\* medical state: the character dies or falls unconscious
Incapacitate(c) ==
    /\ Command
    /\ ~dead[c]
    /\ Cardinality({d \in Chars : dead[d]}) < MaxDown
    /\ Commit([St EXCEPT !.dead[c] = TRUE])
    /\ last' = Last("incapacitate", loc[c], c, None, 0, 0)

\* the character takes a ranged weapon in hand
Wield(c) ==
    /\ Command
    /\ ~ranged[c]
    /\ Cardinality({d \in Chars : ranged[d]}) < MaxArmed
    /\ Commit([St EXCEPT !.ranged[c] = TRUE])
    /\ last' = Last("wield", loc[c], c, None, 0, 0)

BeginRound(h) ==
    /\ NoRound
    /\ running[h]
    /\ roster[h] # <<>>
    /\ active' = [active EXCEPT ![h] = roster[h]]
    /\ turn' = [turn EXCEPT ![h] = InitiativeOrder(roster[h])]
    /\ last' = Last("begin_round", h, None, None, 0, 0)
    /\ UNCHANGED <<roster, running, prox, href, loc, dead, ranged,
                   aiming_at, aimed_at_by, error, steps, medical_state, returned>>

\* the acting combatant's pending action is resolved on the working list and
\* its action slot cleared; a combatant removed during the round is skipped
ResolveAction(L, k, s, r1, r2) ==
    LET L1 == CASE L[k].action = "grapple_initiate" ->
                       resolve_grapple_initiate(L, k, s, r1, r2)
                [] L[k].action = "grapple_join" ->
                       resolve_grapple_join(L, k, s, r1, r2)
                [] L[k].action = "release_grapple" ->
                       resolve_release_grapple(L, k)
                [] OTHER -> L
    IN [L1 EXCEPT ![k].action = "none"]

ResolveTurn(h) ==
    /\ active[h] # <<>>
    /\ turn[h] # <<>>
    /\ LET c == Head(turn[h])
           k == IndexOf(active[h], c)
       IN IF c \in CharsOf(roster[h])
          THEN \E r1 \in Rolls, r2 \in Rolls :
                 LET rolled == active[h][k].action \in {"grapple_initiate", "grapple_join"}
                 IN /\ rolled \/ (r1 = 1 /\ r2 = 1)
                    /\ active' = [active EXCEPT ![h] = ResolveAction(active[h], k, St, r1, r2)]
                    /\ last' = Last(active[h][k].action, h, c,
                                    get_character_by_dbref(active[h][k].target),
                                    IF rolled THEN r1 ELSE 0, IF rolled THEN r2 ELSE 0)
          ELSE /\ UNCHANGED active
               /\ last' = Last("skip", h, c, None, 0, 0)
    /\ turn' = [turn EXCEPT ![h] = Tail(turn[h])]
    /\ UNCHANGED <<roster, running, prox, href, loc, dead, ranged,
                   aiming_at, aimed_at_by, error, steps, medical_state, returned>>

\* during the acting combatant's turn the handler removes the actor (flee) or
\* the actor's target (death)
RoundRemove(h, c) ==
    /\ active[h] # <<>>
    /\ steps < MaxSteps
    /\ turn[h] # <<>>
    /\ c \in CharsOf(active[h])
    /\ LET k == IndexOf(active[h], Head(turn[h]))
       IN k # 0 /\ c \in {active[h][k].char, get_character_by_dbref(active[h][k].target)}
    /\ c \in CharsOf(roster[h])
    /\ Commit(remove_combatant(St, h, c))
    /\ last' = Last("round_remove", h, c, None, Targeting(active[h], c), 0)
    /\ steps' = steps + 1
    /\ UNCHANGED turn

\* the working list is saved back for the combatants still in the roster,
\* then orphan detection runs; last.r1 counts the orphans it removed
EndRoundState(s, h) ==
    LET kept == SelectSeq(s.active[h], LAMBDA e : e.char \in CharsOf(s.roster[h]))
        s1 == [s EXCEPT !.roster[h] = kept, !.active[h] = <<>>]
    IN detect_and_remove_orphaned_combatants(s1, h)

EndRound(h) ==
    /\ active[h] # <<>>
    /\ turn[h] = <<>>
    /\ Commit(EndRoundState(St, h))
    /\ last' = Last("end_round", h, None, None,
                    Len(roster[h]) - Len(EndRoundState(St, h).roster[h]), 0)
    /\ UNCHANGED <<turn, steps>>

Init ==
    /\ roster = [h \in Rooms |-> <<>>]
    /\ active = [h \in Rooms |-> <<>>]
    /\ turn = [h \in Rooms |-> <<>>]
    /\ running = [h \in Rooms |-> FALSE]
    /\ prox = [c \in Chars |-> {}]
    /\ href = [c \in Chars |-> NoHandler]
    /\ loc = [c \in Chars |-> "r1"]
    /\ dead = [c \in Chars |-> FALSE]
    /\ ranged = [c \in Chars |-> FALSE]
    /\ aiming_at = [c \in Chars |-> None]
    /\ aimed_at_by = [c \in Chars |-> None]
    /\ error = FALSE
    /\ last = Last("init", NoHandler, None, None, 0, 0)
    /\ steps = 0
    /\ medical_state = NoMedical
    /\ returned = NoReturn

Next ==
    \/ \E a \in Chars, b \in Chars : Grapple(a, b)
    \/ \E c \in Chars : Release(c)
    \/ \E a \in Chars, b \in Chars : Advance(a, b)
    \/ \E c \in Chars : ClearProximity(c)
    \/ \E h \in Rooms, g \in Chars, v \in Chars : EstablishGrapple(h, g, v)
    \/ \E h \in Rooms, c \in Chars : Remove(h, c)
    \/ \E c \in Chars, d \in Rooms : Traverse(c, d)
    \/ \E c \in Chars : Incapacitate(c)
    \/ \E c \in Chars : Wield(c)
    \/ \E h \in Rooms : BeginRound(h)
    \/ \E h \in Rooms : ResolveTurn(h)
    \/ \E h \in Rooms, c \in Chars : RoundRemove(h, c)
    \/ \E h \in Rooms : EndRound(h)

Spec ==
    Init /\ [][Next]_vars

\* --------------------------------------------- a fight among bystanders
\* The same operations from a state in which the three characters already
\* stand in mutual melee proximity (three Advance commands lead there).
InitMelee ==
    /\ roster = [h \in Rooms |-> <<>>]
    /\ active = [h \in Rooms |-> <<>>]
    /\ turn = [h \in Rooms |-> <<>>]
    /\ running = [h \in Rooms |-> FALSE]
    /\ prox = [c \in Chars |-> Chars \ {c}]
    /\ href = [c \in Chars |-> NoHandler]
    /\ loc = [c \in Chars |-> "r1"]
    /\ dead = [c \in Chars |-> FALSE]
    /\ ranged = [c \in Chars |-> FALSE]
    /\ aiming_at = [c \in Chars |-> None]
    /\ aimed_at_by = [c \in Chars |-> None]
    /\ error = FALSE
    /\ last = Last("init", NoHandler, None, None, 0, 0)
    /\ steps = 0
    /\ medical_state = NoMedical
    /\ returned = NoReturn

NextMelee ==
    \/ \E a \in Chars, b \in Chars : Grapple(a, b)
    \/ \E c \in Chars : Release(c)
    \/ \E h \in Rooms, c \in Chars : Remove(h, c)
    \/ \E h \in Rooms : BeginRound(h)
    \/ \E h \in Rooms : ResolveTurn(h)
    \/ \E h \in Rooms : EndRound(h)

SpecMelee ==
    InitMelee /\ [][NextMelee]_vars

\* ------------------------------------------------------- aiming in a fight
\* CmdAim.func with a character name: any existing aim of the caller is dropped
\* first, the name is searched in the caller's room, aiming at oneself is
\* refused, otherwise the aim relationship is recorded on both characters.
CmdAim_func(s, caller, target) ==
    LET current_target == s.aiming_at[caller]
        s1 == IF current_target # None
              THEN [s EXCEPT !.aimed_at_by[current_target] = IF @ = caller THEN None ELSE @,
                             !.aiming_at[caller] = None]
              ELSE s
    IN IF s.loc[target] # s.loc[caller] \/ target = caller
       THEN s1
       ELSE [s1 EXCEPT !.aiming_at[caller] = target,
                       !.aimed_at_by[target] = caller]

Aim(caller, target) ==
    /\ Command
    /\ Commit(CmdAim_func(St, caller, target))
    /\ last' = Last("aim", loc[caller], caller, target, 0, 0)

NextAim ==
    \/ \E a \in Chars, b \in Chars : Aim(a, b)
    \/ \E a \in Chars, b \in Chars : Grapple(a, b)
    \/ \E h \in Rooms, c \in Chars : Remove(h, c)
    \/ \E c \in Chars, d \in Rooms : Traverse(c, d)

SpecAim ==
    InitMelee /\ [][NextAim]_vars

\* ------------------------------------ validation pass over stored rosters
\* The references a stored entry may hold: nothing, a character, or the
\* dbref of an object that no longer resolves.
Refs ==
    Chars \cup {None, Ghost}

StoredEntries(c) ==
    {[NewEntry(c, 1, None, None, None, FALSE)
         EXCEPT !.grappling = g, !.grappled_by = b] : g \in Refs, b \in Refs}

StoredRosters ==
    {<<e1, e2>> : e1 \in StoredEntries(1), e2 \in StoredEntries(2)}
    \cup {<<e1, e2, e3>> : e1 \in StoredEntries(1), e2 \in StoredEntries(2),
                          e3 \in StoredEntries(3)}

InitValidate ==
    /\ roster \in {[h \in Rooms |-> IF h = "r1" THEN L ELSE <<>>] : L \in StoredRosters}
    /\ active = [h \in Rooms |-> <<>>]
    /\ turn = [h \in Rooms |-> <<>>]
    /\ running = [h \in Rooms |-> h = "r1"]
    /\ prox = [c \in Chars |-> {}]
    /\ href = [c \in Chars |-> IF c \in CharsOf(roster["r1"]) THEN "r1" ELSE NoHandler]
    /\ loc = [c \in Chars |-> "r1"]
    /\ dead = [c \in Chars |-> FALSE]
    /\ ranged = [c \in Chars |-> FALSE]
    /\ aiming_at = [c \in Chars |-> None]
    /\ aimed_at_by = [c \in Chars |-> None]
    /\ error = FALSE
    /\ last = Last("init", NoHandler, None, None, 0, 0)
    /\ steps = 0
    /\ medical_state = NoMedical
    /\ returned = NoReturn

Validate(h) ==
    /\ roster[h] # <<>>
    /\ steps < MaxSteps
    /\ steps' = steps + 1
    /\ roster' = [roster EXCEPT ![h] = validate_and_cleanup_grapple_state(@)]
    /\ last' = Last("validate", h, None, None, 0, 0)
    /\ UNCHANGED <<active, turn, running, prox, href, loc, dead, ranged,
                   aiming_at, aimed_at_by, error, medical_state, returned>>

NextValidate ==
    \E h \in Rooms : Validate(h)

SpecValidate ==
    InitValidate /\ [][NextValidate]_vars

\* ------------------------------------------------------ anatomical damage
\* One body location is hit.  medical_state.organs lists the organs the ORGANS
\* table places in that location, in table order; an organ is named by its
\* position.  target_organ is None, an organ of the location, or the name of
\* an organ that lies elsewhere (a position beyond the list).
MaxOrgans ==
    3
MaxWeight ==
    2
MaxHp ==
    2
MaxDamage ==
    4

\* Organ.is_destroyed
is_destroyed(organ) ==
    organ.current_hp <= 0

get_organ_by_body_location(organs) ==
    [i \in 1..Len(organs) |-> i]

calculate_hit_weights_for_location(organs) ==
    [i \in 1..Len(organs) |-> organs[i].hit_weight]

functional_organs_All(organs) ==
    get_organ_by_body_location(organs)

functional_organs(organs) ==
    SelectSeq(get_organ_by_body_location(organs), LAMBDA i : ~is_destroyed(organs[i]))

InSeq(x, S) ==
    \E k \in 1..Len(S) : S[k] = x

RECURSIVE SumOver(_, _)
SumOver(f, S) ==
    IF S = <<>> THEN 0 ELSE f[Head(S)] + SumOver(f, Tail(S))

RECURSIVE SumDamage(_)
SumDamage(distribution) ==
    IF distribution = <<>> THEN 0
    ELSE Head(distribution).damage + SumDamage(Tail(distribution))

\* int((organ_weight / total_weight) * total_damage).  The quotient is a
\* double; for total weights up to 12 and damage below 55 its product with the
\* damage truncates to the exact integer quotient, which is what is computed
\* here (beyond that range the double can fall one short, as for 3/11 * 55).
ProportionalShare(organ_weight, total_weight, total_damage) ==
    (organ_weight * total_damage) \div total_weight

LastShare_Proportional(organ_weight, total_weight, total_damage, shares) ==
    ProportionalShare(organ_weight, total_weight, total_damage)

\* remaining_damage after the loop over functional_organs[:-1]
LastShare(organ_weight, total_weight, total_damage, shares) ==
    total_damage - SumDamage(shares)

\* the returned dict, as the sequence of its items in insertion order
distribute_damage_to_organs(organs, total_damage, target_organ) ==
    LET functional == functional_organs(organs)
        hit_weights == calculate_hit_weights_for_location(organs)
        total_weight == SumOver(hit_weights, functional)
        n == Len(functional)
        shares == [k \in 1..(n - 1) |->
                     [organ |-> functional[k],
                      damage |-> ProportionalShare(hit_weights[functional[k]],
                                                   total_weight, total_damage)]]
    IN IF get_organ_by_body_location(organs) = <<>> THEN <<>>
       ELSE IF functional = <<>> THEN <<>>
       ELSE IF target_organ # None /\ InSeq(target_organ, functional)
       THEN <<[organ |-> target_organ, damage |-> total_damage]>>
       ELSE IF total_weight = 0 THEN <<>>
       ELSE shares \o <<[organ |-> functional[n],
                         damage |-> LastShare(hit_weights[functional[n]],
                                              total_weight, total_damage, shares)]>>

\* MedicalState.take_organ_damage: hit points are clamped at zero
take_organ_damage(organ, amount) ==
    [organ EXCEPT !.current_hp = IF @ - amount < 0 THEN 0 ELSE @ - amount]

RECURSIVE ApplyDistribution(_, _)
ApplyDistribution(organs, distribution) ==
    IF distribution = <<>> THEN organs
    ELSE LET item == Head(distribution)
             organs1 == IF item.damage > 0
                        THEN [organs EXCEPT ![item.organ] = take_organ_damage(@, item.damage)]
                        ELSE organs
         IN ApplyDistribution(organs1, Tail(distribution))

AlreadyDestroyed_AnyEmpty(organs, damage_distribution) ==
    damage_distribution = <<>>

\* "if not damage_distribution: ... if organs_in_location:"
AlreadyDestroyed(organs, damage_distribution) ==
    damage_distribution = <<>> /\ get_organ_by_body_location(organs) # <<>>

\* the results dict and the medical state the call leaves behind
apply_anatomical_damage(ms, damage_amount, target_organ) ==
    LET damage_distribution == distribute_damage_to_organs(ms.organs, damage_amount, target_organ)
        organs1 == ApplyDistribution(ms.organs, damage_distribution)
        damaged == SelectSeq(damage_distribution, LAMBDA item : item.damage > 0)
    IN IF AlreadyDestroyed(ms.organs, damage_distribution)
       THEN [medical_state |-> ms,
             results |-> [organs_damaged |-> <<>>, organs_destroyed |-> <<>>,
                          total_damage |-> 0, limb_lost |-> TRUE]]
       ELSE [medical_state |-> [ms EXCEPT !.organs = organs1],
             results |-> [organs_damaged |-> damaged,
                          organs_destroyed |-> SelectSeq(damaged,
                                   LAMBDA item : is_destroyed(organs1[item.organ])),
                          total_damage |-> damage_amount, limb_lost |-> FALSE]]

OrganStates ==
    [hit_weight : 1..MaxWeight, current_hp : 0..MaxHp]

LocationOrgans ==
    UNION {[1..n -> OrganStates] : n \in 0..MaxOrgans}

InitMedical ==
    /\ roster = [h \in Rooms |-> <<>>]
    /\ active = [h \in Rooms |-> <<>>]
    /\ turn = [h \in Rooms |-> <<>>]
    /\ running = [h \in Rooms |-> FALSE]
    /\ prox = [c \in Chars |-> {}]
    /\ href = [c \in Chars |-> NoHandler]
    /\ loc = [c \in Chars |-> "r1"]
    /\ dead = [c \in Chars |-> FALSE]
    /\ ranged = [c \in Chars |-> FALSE]
    /\ aiming_at = [c \in Chars |-> None]
    /\ aimed_at_by = [c \in Chars |-> None]
    /\ error = FALSE
    /\ last = Last("init", NoHandler, None, None, 0, 0)
    /\ steps = 0
    /\ medical_state \in {[organs |-> L, conditions |-> <<>>] : L \in LocationOrgans}
    /\ returned = NoReturn

\* one call of apply_anatomical_damage; returned keeps the arguments, the
\* organs before the call, the distribution it computed and its results
Hit(damage_amount, target_organ) ==
    /\ returned = NoReturn
    /\ LET out == apply_anatomical_damage(medical_state, damage_amount, target_organ)
       IN /\ medical_state' = out.medical_state
          /\ returned' = [kind |-> "damage",
                          before |-> medical_state.organs,
                          damage_amount |-> damage_amount,
                          target_organ |-> target_organ,
                          distribution |-> distribute_damage_to_organs(
                                  medical_state.organs, damage_amount, target_organ),
                          results |-> out.results]
    /\ last' = Last("apply_anatomical_damage", NoHandler, None, None, 0, 0)
    /\ UNCHANGED <<roster, active, turn, running, prox, href, loc, dead, ranged,
                   aiming_at, aimed_at_by, error, steps>>

NextMedical ==
    \E damage_amount \in 0..MaxDamage, target_organ \in 0..(MaxOrgans + 1) :
        Hit(damage_amount, target_organ)

SpecMedical ==
    InitMedical /\ [][NextMedical]_vars

\* ---------------------------------------------------- medical conditions
\* A condition object is a record of its attributes tagged with its class; an
\* attribute the class does not define holds Absent.
MaxSeverity ==
    3
Absent ==
    -1
\* HEALING_EFFECTIVENESS.get(treatment_quality, 0.5), in percent
Effectiveness ==
    50
Locations ==
    {"none", "chest"}
ConditionClasses ==
    {"BleedingCondition", "PainCondition", "InfectionCondition"}

Max(a, b) ==
    IF a >= b THEN a ELSE b

Min(a, b) ==
    IF a <= b THEN a ELSE b

\* BLOOD_LOSS_PER_SEVERITY.get(severity, 1)
BLOOD_LOSS_PER_SEVERITY(severity) ==
    IF severity >= 1 THEN severity ELSE 1

\* MedicalCondition.__init__
MedicalCondition(cls, condition_type, severity, location, tick_interval) ==
    [cls |-> cls, condition_type |-> condition_type, severity |-> severity,
     max_severity |-> severity, location |-> location,
     tick_interval |-> tick_interval, requires_ticker |-> TRUE, treated |-> FALSE,
     blood_loss_rate |-> Absent, last_progression_check |-> Absent,
     environmental_modifier |-> Absent, progression_chance |-> Absent]

BleedingCondition(severity, location) ==
    [MedicalCondition("BleedingCondition", "minor_bleeding", severity, location, 60)
        EXCEPT !.blood_loss_rate = BLOOD_LOSS_PER_SEVERITY(severity)]

PainCondition(severity, location) ==
    MedicalCondition("PainCondition", "pain", severity, location, 120)

InfectionCondition(severity, location) ==
    [MedicalCondition("InfectionCondition", "infection", severity, location, 300)
        EXCEPT !.last_progression_check = 0, !.environmental_modifier = 1]

Construct(cls, severity, location) ==
    CASE cls = "BleedingCondition" -> BleedingCondition(severity, location)
      [] cls = "PainCondition" -> PainCondition(severity, location)
      [] cls = "InfectionCondition" -> InfectionCondition(severity, location)

\* MedicalCondition.to_dict, extended by BleedingCondition.to_dict; a key the
\* dict does not hold is Absent
to_dict(c) ==
    [condition_type |-> c.condition_type, severity |-> c.severity,
     max_severity |-> c.max_severity, location |-> c.location,
     tick_interval |-> c.tick_interval, requires_ticker |-> c.requires_ticker,
     treated |-> c.treated,
     blood_loss_rate |-> IF c.cls = "BleedingCondition" THEN c.blood_loss_rate ELSE Absent]

\* positional parameters the class's __init__ accepts after self
InitArity(cls) ==
    IF cls = "MedicalCondition" THEN 4 ELSE 2

\* cls.from_dict(data).  BleedingCondition overrides it and calls
\* cls(severity, location); the other classes inherit MedicalCondition.from_dict,
\* which calls cls(condition_type, severity, location): three positional
\* arguments, a TypeError for a class whose __init__ accepts two.
from_dict(cls, data) ==
    IF cls = "BleedingCondition"
    THEN [ok |-> TRUE,
          condition |-> [BleedingCondition(data.severity, data.location)
                            EXCEPT !.max_severity = data.max_severity,
                                   !.tick_interval = data.tick_interval,
                                   !.requires_ticker = data.requires_ticker,
                                   !.treated = data.treated,
                                   !.blood_loss_rate = IF data.blood_loss_rate = Absent
                                                       THEN @ ELSE data.blood_loss_rate]]
    ELSE IF InitArity(cls) < 3
    THEN [ok |-> FALSE, raised |-> "TypeError"]
    ELSE [ok |-> TRUE,
          condition |-> [MedicalCondition(cls, data.condition_type, data.severity,
                                          data.location, 60)
                            EXCEPT !.max_severity = data.max_severity,
                                   !.tick_interval = data.tick_interval,
                                   !.requires_ticker = data.requires_ticker,
                                   !.treated = data.treated]]

\* blood lost at one tick of a bleeding condition
get_blood_loss_rate(c) ==
    IF c.cls # "BleedingCondition" THEN 0
    ELSE IF c.treated THEN (c.blood_loss_rate * 3) \div 10 ELSE c.blood_loss_rate

\* an infection that worsens without a cap
infection_worsens_Uncapped(c) ==
    [c EXCEPT !.severity = @ + 1]

\* "self.severity = min(10, self.severity + 1)"
infection_worsens(c) ==
    [c EXCEPT !.severity = Min(10, @ + 1)]

\* tick_effect: the conditions one tick can leave behind, over the outcomes
\* of random.randint
tick_effect(c) ==
    LET healed == [c EXCEPT !.severity = Max(0, @ - 1)]
    IN CASE c.cls = "BleedingCondition" ->
                IF c.treated THEN {c} ELSE {c, healed}
         [] c.cls = "PainCondition" -> {c, healed}
         [] c.cls = "InfectionCondition" ->
                IF c.last_progression_check = 0
                THEN {[c EXCEPT !.last_progression_check = 1]}
                ELSE IF c.treated THEN {c, healed}
                ELSE {c, infection_worsens(c)}

\* MedicalCondition.should_end and its three overrides
should_end(c) ==
    c.severity <= 0

\* a treatment that subtracts its reduction without the floor at 0
apply_treatment_NoFloor(c) ==
    [c EXCEPT !.treated = TRUE, !.severity = @ - Max(1, (@ * Effectiveness) \div 100)]

\* apply_treatment of the three classes
apply_treatment(c) ==
    LET t == [c EXCEPT !.treated = TRUE]
        half == Max(1, (c.severity * Effectiveness) \div 100)
        extra == Max(1, (c.severity * Effectiveness * 3) \div 200)
    IN CASE c.cls = "BleedingCondition" ->
                [t EXCEPT !.severity = Max(0, @ - half),
                          !.blood_loss_rate = Max(1, (@ * 3) \div 10)]
         [] c.cls = "PainCondition" ->
                [t EXCEPT !.severity = Max(0, @ - extra)]
         [] c.cls = "InfectionCondition" ->
                [t EXCEPT !.severity = Max(0, @ - half), !.progression_chance = 0]

\* consciousness is a fraction of 1 and is counted in hundredths: Units(1) is
\* 1.0 and the 15 of "consciousness + 15" is Units(15)
Units(x) ==
    100 * x

\* MedicalState: the fields the condition engine and the medical items use
Vitals(conditions, blood_level, pain_level, consciousness) ==
    [organs |-> <<>>, conditions |-> conditions, blood_level |-> blood_level,
     pain_level |-> pain_level, consciousness |-> consciousness]

InitCondition ==
    /\ roster = [h \in Rooms |-> <<>>]
    /\ active = [h \in Rooms |-> <<>>]
    /\ turn = [h \in Rooms |-> <<>>]
    /\ running = [h \in Rooms |-> FALSE]
    /\ prox = [c \in Chars |-> {}]
    /\ href = [c \in Chars |-> NoHandler]
    /\ loc = [c \in Chars |-> "r1"]
    /\ dead = [c \in Chars |-> FALSE]
    /\ ranged = [c \in Chars |-> FALSE]
    /\ aiming_at = [c \in Chars |-> None]
    /\ aimed_at_by = [c \in Chars |-> None]
    /\ error = FALSE
    /\ last = Last("init", NoHandler, None, None, 0, 0)
    /\ steps = 0
    /\ \E cls \in ConditionClasses, severity \in 1..MaxSeverity, location \in Locations :
          medical_state = Vitals(<<Construct(cls, severity, location)>>,
                                 100, 0, Units(1))
    /\ returned = NoReturn

CombatFrame ==
    UNCHANGED <<roster, active, turn, running, prox, href, loc, dead, ranged,
                aiming_at, aimed_at_by, error>>

CombatUnchanged ==
    CombatFrame /\ UNCHANGED steps

\* a tick that lets the blood level go below zero
blood_after_tick_NoFloor(ms, c) ==
    ms.blood_level - get_blood_loss_rate(c)

\* BleedingCondition.tick_effect on the medical state: the blood level after
\* the tick
blood_after_tick(ms, c) ==
    Max(0, ms.blood_level - get_blood_loss_rate(c))

\* any one of the character's conditions ticks
TickEffect ==
    /\ \E i \in 1..Len(medical_state.conditions) :
          LET c == medical_state.conditions[i]
          IN /\ \E c1 \in tick_effect(c) :
                   medical_state' = [medical_state EXCEPT
                                        !.conditions[i] = c1,
                                        !.blood_level = blood_after_tick(medical_state, c)]
             /\ returned' = [kind |-> "tick", index |-> i, condition |-> c,
                             old_blood |-> medical_state.blood_level,
                             blood_loss |-> get_blood_loss_rate(c)]
    /\ last' = Last("tick_effect", NoHandler, None, None, 0, 0)
    /\ CombatFrame

Tick ==
    TickEffect /\ UNCHANGED steps

Treat ==
    /\ medical_state.conditions # <<>>
    /\ medical_state' = [medical_state EXCEPT
                            !.conditions = <<apply_treatment(medical_state.conditions[1])>>]
    /\ returned' = [kind |-> "treatment"]
    /\ last' = Last("apply_treatment", NoHandler, None, None, 0, 0)
    /\ CombatUnchanged

\* the condition is persisted with to_dict and rebuilt by its class's
\* from_dict; when from_dict raises, the live condition stays as it was
RoundTrip ==
    /\ medical_state.conditions # <<>>
    /\ LET c == medical_state.conditions[1]
           out == from_dict(c.cls, to_dict(c))
       IN /\ returned' = [kind |-> "round_trip", original |-> c, out |-> out]
          /\ medical_state' = IF out.ok
                              THEN [medical_state EXCEPT !.conditions = <<out.condition>>]
                              ELSE medical_state
    /\ last' = Last("from_dict", NoHandler, None, None, 0, 0)
    /\ CombatUnchanged

NextCondition ==
    \/ Tick
    \/ Treat
    \/ RoundTrip

SpecCondition ==
    InitCondition /\ [][NextCondition]_vars

\* ================================================================ properties
\* A holds a reference of kind f ("grappling" or "grappled_by") to B in L
Grappling(L, A, B) ==
    IndexOf(L, A) # 0 /\ L[IndexOf(L, A)].grappling = B

GrappledBy(L, B, A) ==
    IndexOf(L, B) # 0 /\ L[IndexOf(L, B)].grappled_by = A

GrappleSymmetric(L) ==
    \A A \in Chars, B \in Chars : Grappling(L, A, B) <=> GrappledBy(L, B, A)

GrappleResolutions ==
    {"grapple_initiate", "grapple_join", "release_grapple"}

\* C1: grapple references are symmetric (A grapples B exactly when B is
\* grappled by A); here for the resolution of a grapple action in a round:
\* a working list whose references are symmetric is left symmetric, also
\* when the acting combatant already grapples someone.
C1_GrappleSymmetry ==
    [][(/\ last'.op \in GrappleResolutions
        /\ GrappleSymmetric(active[last'.h]))
       => GrappleSymmetric(active'[last'.h])]_vars

\* C2: melee proximity is symmetric in every reachable state.
C2_ProximitySymmetric ==
    \A a \in Chars, b \in Chars : b \in prox[a] <=> a \in prox[b]

\* a drag has just cleared the proximity of grappler and victim with the
\* room they left and re-established it between the two
C2_Witness ==
    /\ last.op = "dragged"
    /\ \E v \in Chars : v \in prox[last.a] /\ last.a \in prox[v]

RefsValid(L) ==
    \A i \in 1..Len(L) :
        \A r \in {L[i].grappling, L[i].grappled_by} :
            r = None \/ (r \in CharsOf(L) /\ r # L[i].char)

\* C3: after one validation pass over a roster, no grapple reference is
\* unresolvable, points at its own entry or at a character outside the
\* roster, and the remaining references are symmetric.
C3_ValidateCleans ==
    (last.op = "validate" /\ steps = 1)
        => (RefsValid(roster[last.h]) /\ GrappleSymmetric(roster[last.h]))

\* the stored roster of a session and the working list of its round
Lists(h) ==
    {roster[h], active[h]}

\* C4: no two combatants grapple each other.
C4_NoMutualGrapple ==
    \A h \in Rooms, A \in Chars, B \in Chars :
        \A L \in Lists(h) : ~(Grappling(L, A, B) /\ Grappling(L, B, A))

\* C5: a character is the grappling target of at most one entry.
C5_SingleGrappler ==
    \A h \in Rooms, V \in Chars :
        \A L \in Lists(h) : Cardinality({A \in Chars : Grappling(L, A, V)}) <= 1

\* C6: removing a combatant a second time changes nothing and raises
\* nothing, through the stored roster and through a round's working list.
C6_RemoveTwiceNoop ==
    \A h \in Rooms, c \in Chars :
        LET s1 == remove_combatant(St, h, c)
            s2 == remove_combatant(s1, h, c)
        IN s2 = s1 /\ ~s2.error

\* a combatant was removed during a round and its entry is still on the
\* working list the second removal would search
C6_Witness ==
    /\ last.op = "round_remove"
    /\ active[last.h] # <<>>
    /\ last.a \in CharsOf(active[last.h])
    /\ last.a \notin CharsOf(roster[last.h])

IsOrphan(L, i) ==
    /\ L[i].target = None
    /\ L[i].grappling = None
    /\ L[i].grappled_by = None
    /\ \A j \in 1..Len(L) : L[j].target # L[i].char

\* C7: orphan detection removes every combatant without target, grapple or
\* attacker, yielding or not; none remains afterwards, and a roster left
\* empty stops the session's combat logic.
C7_OrphansRemoved ==
    \A h \in Rooms :
        active[h] = <<>> =>
            LET s1 == detect_and_remove_orphaned_combatants(St, h)
            IN /\ \A i \in 1..Len(roster[h]) :
                      IsOrphan(roster[h], i)
                          => roster[h][i].char \notin CharsOf(s1.roster[h])
               /\ \A i \in 1..Len(s1.roster[h]) : ~IsOrphan(s1.roster[h], i)
               /\ s1.roster[h] = <<>> => ~s1.running[h]

\* round-end detection removed the last combatants and the session stopped
C7_Witness ==
    /\ last.op = "end_round"
    /\ last.r1 > 0
    /\ roster[last.h] = <<>>
    /\ ~running[last.h]

EntryOf(L, c) ==
    L[IndexOf(L, c)]

\* C8: a successful drag takes grappler and victim out of the old roster
\* and into the destination's, the grapple intact, the grappler yielding
\* and the victim's yielding flag as it was before the drag.
C8_DragTransfers ==
    [][last'.op = "dragged" =>
        LET g == last'.a
            old == href[g]
            dest == last'.b
            v == EntryOf(roster[old], g).grappling
        IN /\ g \notin CharsOf(roster'[old])
           /\ v \notin CharsOf(roster'[old])
           /\ g \in CharsOf(roster'[dest])
           /\ v \in CharsOf(roster'[dest])
           /\ EntryOf(roster'[dest], g).grappling = v
           /\ EntryOf(roster'[dest], v).grappled_by = g
           /\ EntryOf(roster'[dest], g).yielding
           /\ EntryOf(roster'[dest], v).yielding = EntryOf(roster[old], v).yielding]_vars

\* a drag has just brought a grappler and a non-yielding victim into the
\* destination's session
C8_Witness ==
    /\ last.op = "dragged"
    /\ last.a \in CharsOf(roster[last.b])
    /\ \E v \in Chars : /\ Grappling(roster[last.b], last.a, v)
                        /\ ~EntryOf(roster[last.b], v).yielding

\* the grapple of g is broken on both sides, nobody moved and both keep
\* their entries in the session
Resisted(g) ==
    LET h == href[g]
        v == EntryOf(roster[h], g).grappling
    IN /\ loc' = loc
       /\ g \in CharsOf(roster'[h])
       /\ v \in CharsOf(roster'[h])
       /\ EntryOf(roster'[h], g).grappling = None
       /\ EntryOf(roster'[h], v).grappled_by = None

DragRolled ==
    {"dragged", "drag_resisted"}

\* C9 as stated: the victim resists a drag whenever the victim's roll is at
\* least the grappler's (ties favor the victim).
C9_TiesFavorVictim ==
    [][(last'.op \in DragRolled /\ last'.r1 >= last'.r2) => Resisted(last'.a)]_vars

\* C9 amended: the victim resists a drag only when the victim's roll is
\* strictly greater than the grappler's; then the grapple is broken on both
\* sides, nobody changes location and both keep their entries. On a tie or
\* a lower roll the drag proceeds.
C9_DragResistance ==
    [][last'.op \in DragRolled =>
        IF last'.r1 > last'.r2
        THEN Resisted(last'.a)
        ELSE loc'[last'.a] = last'.b]_vars

\* the victim has just resisted a drag
C9_Witness ==
    /\ last.op = "drag_resisted"
    /\ last.r1 > last.r2
    /\ loc[last.a] # last.b
    /\ EntryOf(roster[last.h], last.a).grappling = None

Removals ==
    {"remove", "round_remove"}

\* C11: after remove_combatant(c), c is in nobody's proximity set, c's own
\* proximity is empty, and no remaining roster entry holds a grappling or
\* grappled-by reference to c.
C11_RemoveClearsLinks ==
    [][last'.op \in Removals =>
        LET c == last'.a
            L == roster'[last'.h]
        IN /\ prox'[c] = {}
           /\ \A x \in Chars : c \notin prox'[x]
           /\ \A i \in 1..Len(L) : L[i].grappling # c /\ L[i].grappled_by # c]_vars

\* C12: after remove_combatant(c), c aims at nobody, nobody is recorded as
\* aiming at c, and no other character still records c as its aim target or as
\* its aimer.
C12_RemoveClearsAim ==
    [][last'.op \in Removals =>
        LET c == last'.a
        IN /\ aiming_at'[c] = None
           /\ aimed_at_by'[c] = None
           /\ \A x \in Chars : aiming_at'[x] # c /\ aimed_at_by'[x] # c]_vars

\* the call recorded in returned hit a location with a functional organ
HitFunctional ==
    /\ returned.kind = "damage"
    /\ \E i \in 1..Len(returned.before) : ~is_destroyed(returned.before[i])

\* C13: for every damage distribution with total damage D over a location
\* with at least one functional organ, with or without an explicit target
\* organ, the per-organ damage of the returned distribution sums to D exactly.
C13_DamageConserved ==
    HitFunctional => SumDamage(returned.distribution) = returned.damage_amount

\* a split with rounding: four points over two functional organs, 1 and 3
C13_Witness ==
    /\ HitFunctional
    /\ returned.target_organ = None
    /\ returned.damage_amount = 4
    /\ Len(returned.distribution) = 2
    /\ returned.distribution[1].damage = 1
    /\ returned.distribution[2].damage = 3

\* the organs of the recorded call that still had hit points, in table order
FunctionalBefore ==
    SelectSeq([i \in 1..Len(returned.before) |-> i],
              LAMBDA i : returned.before[i].current_hp > 0)

TargetedFunctional ==
    returned.target_organ # None /\ InSeq(returned.target_organ, FunctionalBefore)

C15_AlreadyDestroyed ==
    returned.kind = "damage" =>
        LET organs == returned.before
            res == returned.results
        IN /\ res.limb_lost <=> (organs # <<>> /\ FunctionalBefore = <<>>)
           /\ res.limb_lost =>
                 /\ res.total_damage = 0
                 /\ res.organs_damaged = <<>>
                 /\ res.organs_destroyed = <<>>
                 /\ medical_state.organs = organs
           /\ (returned.damage_amount = 0 /\ FunctionalBefore # <<>>) =>
                 /\ ~res.limb_lost
                 /\ res.organs_damaged = <<>>
                 /\ medical_state.organs = organs

\* a positive hit on a location whose two organs were both destroyed
C15_Witness ==
    /\ returned.kind = "damage"
    /\ Len(returned.before) = 2
    /\ FunctionalBefore = <<>>
    /\ returned.damage_amount = 3
    /\ returned.results.limb_lost

\* C16: for every condition variant (bleeding, pain, infection), to_dict
\* followed by the same class's from_dict succeeds and yields the same variant
\* with identical type, severity, max_severity, location and treated flag, and
\* with the same behaviour at the following tick.
C16_ConditionRoundTrip ==
    returned.kind = "round_trip" =>
        /\ returned.out.ok
        /\ LET c == returned.original
               r == returned.out.condition
           IN /\ r.cls = c.cls
              /\ r.condition_type = c.condition_type
              /\ r.severity = c.severity
              /\ r.max_severity = c.max_severity
              /\ r.location = c.location
              /\ r.treated = c.treated
              /\ get_blood_loss_rate(r) = get_blood_loss_rate(c)
              /\ {[x EXCEPT !.last_progression_check = 0] : x \in tick_effect(r)}
                   = {[x EXCEPT !.last_progression_check = 0] : x \in tick_effect(c)}

\* the working-list entry of c before / after the step (k = 0: no entry)
Pre(c) ==
    active[last'.h][IndexOf(active[last'.h], c)]

Post(c) ==
    active'[last'.h][IndexOf(active'[last'.h], c)]

\* the step resolved a grapple initiate whose preconditions held: the target
\* is in the working list and in the attacker's proximity
InitiateRolled ==
    /\ last'.op = "grapple_initiate"
    /\ last'.b # None
    /\ IndexOf(active[last'.h], last'.b) # 0
    /\ last'.b \in prox[last'.a]

GrappleRefs(L) ==
    [i \in 1..Len(L) |-> <<L[i].char, L[i].grappling, L[i].grappled_by>>]

\* C17: a grapple initiate whose preconditions hold succeeds exactly when the
\* attacker's roll exceeds the defender's (a tie fails).  On success the
\* attacker grapples the target, the target is grappled by the attacker and
\* the attacker yields; on failure no grappling or grappled-by reference
\* changes.
C17_InitiateOutcome ==
    [][InitiateRolled =>
        IF last'.r1 > last'.r2
        THEN /\ Post(last'.a).grappling = last'.b
             /\ Post(last'.b).grappled_by = last'.a
             /\ Post(last'.a).yielding
        ELSE GrappleRefs(active'[last'.h]) = GrappleRefs(active[last'.h])]_vars

\* an initiate that failed on a tie
C17_Witness ==
    /\ last.op = "grapple_initiate"
    /\ last.r1 = 2 /\ last.r2 = 2
    /\ last.b # None
    /\ IndexOf(active[last.h], last.b) # 0
    /\ last.b \in prox[last.a]
    /\ active[last.h][IndexOf(active[last.h], last.a)].grappling = None

\* C18: whenever a grapple is established, by a successful
\* resolve_grapple_initiate or by a successful establish_grapple, the grappler
\* becomes yielding and the victim's yielding flag is left as it was.
C18_VictimKeepsYielding ==
    [][/\ (InitiateRolled /\ last'.r1 > last'.r2) =>
             /\ Post(last'.a).yielding
             /\ Post(last'.b).yielding = Pre(last'.b).yielding
       /\ last'.op = "establish_grapple" =>
             LET L == roster[last'.h]
                 M == roster'[last'.h]
             IN /\ M[IndexOf(M, last'.a)].yielding
                /\ M[IndexOf(M, last'.b)].yielding = L[IndexOf(L, last'.b)].yielding]_vars

\* C19: when a grapple initiate fails its roll and either party entered
\* combat through that grapple command, the attacker and the target are both
\* yielding afterwards, also when the attacker was already in combat and only
\* the target was newly added.
C19_FailedOvertureYields ==
    [][(/\ InitiateRolled
        /\ last'.r1 <= last'.r2
        /\ Pre(last'.a).initiated \/ Pre(last'.b).initiated) =>
            Post(last'.a).yielding /\ Post(last'.b).yielding]_vars

\* the step resolved a grapple join whose preconditions held: the victim is
\* in the working list, held by a current grappler who is in the list too, and
\* in the proximity of the challenger, who is not that grappler
JoinRolled ==
    /\ last'.op = "grapple_join"
    /\ last'.b # None
    /\ IndexOf(active[last'.h], last'.b) # 0
    /\ get_character_by_dbref(Pre(last'.b).grappled_by) # None
    /\ IndexOf(active[last'.h], Pre(last'.b).grappled_by) # 0
    /\ last'.b \in prox[last'.a]
    /\ Pre(last'.b).grappled_by # last'.a

RefsOf(e) ==
    <<e.grappling, e.grappled_by>>

ReleaseResolved ==
    /\ last'.op = "release_grapple"
    /\ get_character_by_dbref(Pre(last'.a).grappling) # None
    /\ IndexOf(active[last'.h], Pre(last'.a).grappling) # 0

\* C21: a release resolved for a combatant grappling a victim present in the
\* roster always succeeds: the releaser's grappling reference and the victim's
\* grappled-by reference are empty afterwards, and the yielding flags and
\* targets of both are what they were before.
C21_ReleaseFrame ==
    [][ReleaseResolved =>
        LET releaser == last'.a
            victim == Pre(last'.a).grappling
        IN /\ Post(releaser).grappling = None
           /\ Post(victim).grappled_by = None
           /\ Post(releaser).yielding = Pre(releaser).yielding
           /\ Post(victim).yielding = Pre(victim).yielding
           /\ Post(releaser).target = Pre(releaser).target
           /\ Post(victim).target = Pre(victim).target]_vars

\* a yielding grappler has released its victim in this round
C21_Witness ==
    /\ last.op = "release_grapple"
    /\ last.b # None
    /\ \E i, j \in 1..Len(active[last.h]) :
          LET L == active[last.h]
          IN /\ L[i].char = last.a /\ L[i].grappling = None /\ L[i].yielding
             /\ L[i].target = last.b
             /\ L[j].char = last.b /\ L[j].grappled_by = None
             /\ roster[last.h][IndexOf(roster[last.h], last.a)].grappling = last.b

\* ------------------------------------------------ a four-sided fight
\* remove_combatant from one running handler whose roster holds four
\* combatants with arbitrary targets, proximity and at most MaxArmed ranged
\* weapons, so that an attacker can have two candidates for its new target.
Fighters ==
    Chars \cup {4}

SymmetricProximity ==
    {p \in [Fighters -> SUBSET Fighters] :
        \A a \in Fighters : /\ a \notin p[a]
                            /\ \A b \in p[a] : a \in p[b]}

InitRetarget ==
    /\ \E t \in [Fighters -> Fighters \cup {None}] :
          /\ \A c \in Fighters : t[c] # c
          /\ roster = [h \in Rooms |->
                 IF h = "r1"
                 THEN [i \in 1..Cardinality(Fighters) |->
                          NewEntry(i, 1, t[i], None, None, FALSE)]
                 ELSE <<>>]
    /\ active = [h \in Rooms |-> <<>>]
    /\ turn = [h \in Rooms |-> <<>>]
    /\ running = [h \in Rooms |-> h = "r1"]
    /\ prox \in SymmetricProximity
    /\ href = [c \in Fighters |-> "r1"]
    /\ loc = [c \in Fighters |-> "r1"]
    /\ dead = [c \in Fighters |-> FALSE]
    /\ ranged \in {r \in [Fighters -> BOOLEAN] :
                      Cardinality({c \in Fighters : r[c]}) <= MaxArmed}
    /\ aiming_at = [c \in Fighters |-> None]
    /\ aimed_at_by = [c \in Fighters |-> None]
    /\ error = FALSE
    /\ last = Last("init", NoHandler, None, None, 0, 0)
    /\ steps = 0
    /\ medical_state = NoMedical
    /\ returned = NoReturn

RetargetRemove(c) ==
    /\ steps = 0
    /\ Remove("r1", c)

NextRetarget ==
    \E c \in Fighters : RetargetRemove(c)

SpecRetarget ==
    InitRetarget /\ [][NextRetarget]_vars

\* the entries of the pre-step roster that qualify as new targets for the
\* combatant at index k once char is gone
Candidates(k, char) ==
    {j \in 1..Len(roster[last'.h]) :
        LET L == roster[last'.h]
        IN /\ L[j].char \notin {L[k].char, char}
           /\ ~dead[L[j].char]
           /\ L[j].target = L[k].char}

\* C22: in the auto-retargeting after a removal, an attacker without a ranged
\* weapon gets a candidate (a combatant targeting it) from its proximity
\* whenever one exists and a candidate outside proximity only when none is in
\* proximity; an attacker with a ranged weapon gets the first candidate in
\* roster order, whatever the proximity.
C22_RetargetPreference ==
    [][last'.op = "remove" /\ active[last'.h] = <<>> =>
        LET L == roster[last'.h]
            char == last'.a
        IN \A k \in 1..Len(L) :
              L[k].target = char /\ L[k].char # char =>
                 LET attacker == L[k].char
                     cand == Candidates(k, char)
                     near == {j \in cand : L[j].char \in prox[attacker]}
                     M == roster'[last'.h]
                     new == M[IndexOf(M, attacker)].target
                 IN IF cand = {} THEN new = None
                    ELSE IF ranged[attacker]
                    THEN new = L[CHOOSE j \in cand : \A j2 \in cand : j <= j2].char
                    ELSE IF near # {}
                    THEN new \in {L[j].char : j \in near}
                    ELSE new \in {L[j].char : j \in cand}]_vars

\* after a removal a melee attacker targets a combatant in its proximity
\* although an earlier roster entry outside its proximity targets it too
C22_Witness ==
    /\ last.op = "remove"
    /\ last.r1 >= 1
    /\ Len(roster[last.h]) = 3
    /\ \E x, far, near \in 1..3 :
          LET L == roster[last.h]
          IN /\ far < near
             /\ ~ranged[L[x].char]
             /\ L[far].target = L[x].char
             /\ L[near].target = L[x].char
             /\ L[far].char \notin prox[L[x].char]
             /\ L[near].char \in prox[L[x].char]
             /\ L[x].target = L[near].char

\* the condition that ticks in this step, before and after the tick
Ticking ==
    medical_state.conditions[returned'.index]

Ticked ==
    medical_state'.conditions[returned'.index]

\* the step ticks an untreated bleeding whose rate is the table value of its
\* severity
UntreatedTableTick ==
    /\ last'.op = "tick_effect"
    /\ Ticking.cls = "BleedingCondition"
    /\ ~Ticking.treated
    /\ Ticking.blood_loss_rate = BLOOD_LOSS_PER_SEVERITY(Ticking.severity)

\* C23: one tick of an untreated Bleeding condition whose blood-loss rate is
\* the table value R of its severity lowers blood_level by exactly R, floored
\* at 0, whether or not the natural-healing roll fires; the roll changes only
\* the severity, lowering it by 1 and never below 0.
C23_UntreatedTickLosesR ==
    [][UntreatedTableTick =>
        LET R == BLOOD_LOSS_PER_SEVERITY(Ticking.severity)
        IN /\ medical_state'.blood_level = Max(0, medical_state.blood_level - R)
           /\ \/ Ticked = Ticking
              \/ Ticked = [Ticking EXCEPT !.severity = Max(0, Ticking.severity - 1)]
           /\ medical_state'.pain_level = medical_state.pain_level
           /\ medical_state'.consciousness = medical_state.consciousness]_vars

\* an untreated bleeding of severity 3 ticked, the healing roll fired, and the
\* blood level fell by the table value of severity 3
C23_Witness ==
    /\ returned.kind = "tick"
    /\ returned.condition.cls = "BleedingCondition"
    /\ ~returned.condition.treated
    /\ returned.condition.severity = 3
    /\ returned.condition.blood_loss_rate = BLOOD_LOSS_PER_SEVERITY(3)
    /\ medical_state.conditions[returned.index].severity = 2
    /\ medical_state.blood_level = returned.old_blood - BLOOD_LOSS_PER_SEVERITY(3)

\* the step treats the first condition, a bleeding not treated before that
\* the treatment does not end (its severity stays above 0)
FirstTreatment ==
    /\ last'.op = "apply_treatment"
    /\ medical_state.conditions[1].cls = "BleedingCondition"
    /\ ~medical_state.conditions[1].treated
    /\ medical_state'.conditions[1].severity > 0

\* C24: after apply_treatment on a Bleeding condition whose untreated per-tick
\* blood loss was R, a later tick removes floor(0.3 * R), at least 1: the 70%
\* reduction applied once, not twice.
C24_TreatedLossIsThirtyPercent ==
    [][FirstTreatment =>
        LET R == get_blood_loss_rate(medical_state.conditions[1])
        IN get_blood_loss_rate(medical_state'.conditions[1])
              = Max(1, (R * 3) \div 10)]_vars

\* the step ticks an untreated bleeding
UntreatedTick ==
    /\ last'.op = "tick_effect"
    /\ Ticking.cls = "BleedingCondition"
    /\ ~Ticking.treated

\* C25: at every tick an untreated Bleeding condition removes the blood-loss
\* table value of its current severity (floored at a blood level of 0), also
\* after the severity was lowered below the one it was created with.
C25_LossFollowsSeverity ==
    [][UntreatedTick =>
        medical_state'.blood_level =
            Max(0, medical_state.blood_level
                      - BLOOD_LOSS_PER_SEVERITY(Ticking.severity))]_vars

\* ------------------------------------------------------- medical items
\* apply_medical_effects and ticks on a character with a bleeding and a second
\* condition, MaxEvents of them in a row
MaxEvents ==
    3

\* get_medical_type(item): the types apply_medical_effects distinguishes, and
\* one it does not know
MedicalTypes ==
    {"blood_restoration", "pain_relief", "wound_care", "fracture_treatment",
     "surgical_treatment", "healing_acceleration", "antiseptic", "oxygen",
     "anesthetic", "inhaler", "gas", "vapor", "herb", "cigarette",
     "medicinal_plant", "dried_medicine", "unknown"}

\* "for condition in <conditions of the given types>[:n]": the severity drops
\* by amount, floored at 0, and a condition that reaches 0 leaves the list
RECURSIVE reduce_conditions(_, _, _, _)
reduce_conditions(conditions, types, n, amount) ==
    IF conditions = <<>> THEN <<>>
    ELSE LET c == Head(conditions)
             r == [c EXCEPT !.severity = Max(0, @ - amount)]
         IN IF n > 0 /\ c.condition_type \in types
            THEN (IF r.severity <= 0 THEN <<>> ELSE <<r>>)
                    \o reduce_conditions(Tail(conditions), types, n - 1, amount)
            ELSE <<c>> \o reduce_conditions(Tail(conditions), types, n, amount)

\* "min(100, medical_state.consciousness + gain)"
consciousness_gain(ms, gain) ==
    Min(Units(100), ms.consciousness + Units(gain))

\* a transfusion without the cap at 100
blood_gain_Uncapped(ms, gain) ==
    ms.blood_level + gain

\* "min(100, medical_state.blood_level + gain)"
blood_gain(ms, gain) ==
    Min(100, ms.blood_level + gain)

apply_medical_effects(ms, medical_type) ==
    LET conds == ms.conditions
        every == {conds[i].condition_type : i \in 1..Len(conds)}
    IN CASE medical_type = "blood_restoration" ->
                [ms EXCEPT !.blood_level = blood_gain(ms, 25),
                           !.conditions = reduce_conditions(conds, {"minor_bleeding"}, 2, 3)]
         [] medical_type = "pain_relief" ->
                [ms EXCEPT !.conditions = reduce_conditions(conds, {"pain"}, 3, 2)]
         [] medical_type = "wound_care" ->
                [ms EXCEPT !.conditions = reduce_conditions(conds, {"minor_bleeding"}, 1, 2)]
         [] medical_type = "fracture_treatment" ->
                [ms EXCEPT !.conditions = reduce_conditions(conds, {"fracture"}, 1, 4)]
         [] medical_type = "surgical_treatment" ->
                [ms EXCEPT !.conditions = reduce_conditions(conds, {"organ_damage"}, 1, 5)]
         [] medical_type = "healing_acceleration" ->
                [ms EXCEPT !.conditions = reduce_conditions(conds, every, 3, 1)]
         [] medical_type = "antiseptic" ->
                [ms EXCEPT !.conditions = reduce_conditions(conds, {"infection"}, 2, 3)]
         [] medical_type = "oxygen" ->
                [ms EXCEPT !.consciousness = consciousness_gain(ms, 15),
                           !.conditions = reduce_conditions(
                                conds, {"breathing_difficulty", "suffocation"}, 2, 2)]
         [] medical_type = "anesthetic" ->
                [ms EXCEPT !.pain_level = Max(0, @ - 25),
                           !.consciousness = Max(0, @ - Units(10))]
         [] medical_type = "inhaler" ->
                [ms EXCEPT !.conditions = reduce_conditions(
                                conds, {"breathing_difficulty", "lung_damage"}, 1, 3)]
         [] medical_type = "gas" ->
                [ms EXCEPT !.consciousness = consciousness_gain(ms, 5)]
         [] medical_type = "vapor" ->
                [ms EXCEPT !.pain_level = Max(0, @ - 10),
                           !.blood_level = blood_gain(ms, 5)]
         [] medical_type = "herb" ->
                [ms EXCEPT !.pain_level = Max(0, @ - 15),
                           !.conditions = reduce_conditions(conds, {"stress", "anxiety"}, 1, 2)]
         [] medical_type = "cigarette" ->
                [ms EXCEPT !.pain_level = Max(0, @ - 8)]
         [] medical_type \in {"medicinal_plant", "dried_medicine"} ->
                [ms EXCEPT !.pain_level = Max(0, @ - 12),
                           !.consciousness = consciousness_gain(ms, 3)]
         [] OTHER -> ms

InitTreatment ==
    /\ roster = [h \in Rooms |-> <<>>]
    /\ active = [h \in Rooms |-> <<>>]
    /\ turn = [h \in Rooms |-> <<>>]
    /\ running = [h \in Rooms |-> FALSE]
    /\ prox = [c \in Chars |-> {}]
    /\ href = [c \in Chars |-> NoHandler]
    /\ loc = [c \in Chars |-> "r1"]
    /\ dead = [c \in Chars |-> FALSE]
    /\ ranged = [c \in Chars |-> FALSE]
    /\ aiming_at = [c \in Chars |-> None]
    /\ aimed_at_by = [c \in Chars |-> None]
    /\ error = FALSE
    /\ last = Last("init", NoHandler, None, None, 0, 0)
    /\ steps = 0
    /\ \E severity \in 1..MaxSeverity, cls \in ConditionClasses,
          blood_level \in {2, 98}, pain_level \in {0, 30},
          consciousness \in {0, Units(1)} :
          medical_state = Vitals(<<BleedingCondition(severity, "chest"),
                                   Construct(cls, 1, "none")>>,
                                 blood_level, pain_level, consciousness)
    /\ returned = NoReturn

Event ==
    /\ steps < MaxEvents
    /\ steps' = steps + 1

\* the medical script ticks a condition
ScriptTick ==
    Event /\ TickEffect

Medicate(medical_type) ==
    /\ Event
    /\ medical_state' = apply_medical_effects(medical_state, medical_type)
    /\ returned' = [kind |-> "medical_effects", medical_type |-> medical_type,
                    before |-> medical_state]
    /\ last' = Last("apply_medical_effects", NoHandler, None, None, 0, 0)
    /\ CombatFrame

NextTreatment ==
    \/ ScriptTick
    \/ Treat
    \/ \E medical_type \in MedicalTypes : Medicate(medical_type)

SpecTreatment ==
    InitTreatment /\ [][NextTreatment]_vars

\* C26: after any sequence of Bleeding ticks and medical item effects the
\* blood level stays within 0 and 100 inclusive.
C26_BloodWithinRange ==
    medical_state.blood_level \in 0..100

\* a transfusion of 25 given at a blood level above 75 stops at 100
C26_Witness ==
    /\ returned.kind = "medical_effects"
    /\ returned.medical_type = "blood_restoration"
    /\ returned.before.blood_level > 75
    /\ returned.before.blood_level < 100
    /\ medical_state.blood_level = 100

\* C27: after any sequence of medical item effects consciousness stays within
\* 0 and 1 inclusive.
C27_ConsciousnessWithinRange ==
    /\ medical_state.consciousness >= 0
    /\ medical_state.consciousness <= Units(1)

\* ------------------------------------------- create_condition_from_damage
MaxWound ==
    31

\* BLEEDING_DAMAGE_THRESHOLDS.get('minor', 5)
BLEEDING_DAMAGE_THRESHOLD_minor ==
    5

DamageTypes ==
    {"bullet", "blade", "pierce", "blunt"}

\* a wound that bleeds only above the threshold
causes_bleeding_Above(damage_amount) ==
    damage_amount > BLEEDING_DAMAGE_THRESHOLD_minor

\* "if damage_amount >= threshold"
causes_bleeding(damage_amount) ==
    damage_amount >= BLEEDING_DAMAGE_THRESHOLD_minor

\* the lists create_condition_from_damage can return, over the outcomes of
\* random.randint
create_condition_from_damage(damage_amount, damage_type, location) ==
    LET bleeding == IF causes_bleeding(damage_amount)
                    THEN <<BleedingCondition(Min(10, Max(1, damage_amount \div 3)),
                                             location)>>
                    ELSE <<>>
        pain == IF damage_amount > 0
                THEN <<PainCondition(Min(8, Max(1, damage_amount \div 2)), location)>>
                ELSE <<>>
        infections == IF damage_type \in {"bullet", "blade", "pierce"}
                         /\ damage_amount >= 8
                      THEN {<<>>} \cup {<<InfectionCondition(infection_severity, location)>> :
                                           infection_severity \in 1..3}
                      ELSE {<<>>}
    IN {bleeding \o pain \o infection : infection \in infections}

InitWound ==
    /\ roster = [h \in Rooms |-> <<>>]
    /\ active = [h \in Rooms |-> <<>>]
    /\ turn = [h \in Rooms |-> <<>>]
    /\ running = [h \in Rooms |-> FALSE]
    /\ prox = [c \in Chars |-> {}]
    /\ href = [c \in Chars |-> NoHandler]
    /\ loc = [c \in Chars |-> "r1"]
    /\ dead = [c \in Chars |-> FALSE]
    /\ ranged = [c \in Chars |-> FALSE]
    /\ aiming_at = [c \in Chars |-> None]
    /\ aimed_at_by = [c \in Chars |-> None]
    /\ error = FALSE
    /\ last = Last("init", NoHandler, None, None, 0, 0)
    /\ steps = 0
    /\ medical_state = NoMedical
    /\ returned = NoReturn

Wound(damage_amount, damage_type, location) ==
    /\ returned = NoReturn
    /\ \E conditions \in create_condition_from_damage(damage_amount, damage_type, location) :
          returned' = [kind |-> "conditions", damage_amount |-> damage_amount,
                       damage_type |-> damage_type, location |-> location,
                       conditions |-> conditions]
    /\ last' = Last("create_condition_from_damage", NoHandler, None, None, 0, 0)
    /\ UNCHANGED medical_state
    /\ CombatUnchanged

NextWound ==
    \E damage_amount \in -1..MaxWound, damage_type \in DamageTypes,
       location \in Locations :
        Wound(damage_amount, damage_type, location)

SpecWound ==
    InitWound /\ [][NextWound]_vars

\* the conditions of one class among those returned
Returned(cls) ==
    SelectSeq(returned.conditions, LAMBDA c : c.cls = cls)

\* C28: create_condition_from_damage returns a Bleeding condition exactly when
\* the damage is at least the minor bleeding threshold, with severity
\* min(10, max(1, damage // 3)); a Pain condition exactly when the damage is
\* above 0, with severity min(8, max(1, damage // 2)); an Infection condition
\* only for bullet, blade or pierce damage of at least 8, with a severity in
\* 1..3; and no condition at all for a damage of 0 or less.
C28_ConditionsFromDamage ==
    returned.kind = "conditions" =>
        LET d == returned.damage_amount
        IN /\ Len(Returned("BleedingCondition"))
                 = (IF d >= BLEEDING_DAMAGE_THRESHOLD_minor THEN 1 ELSE 0)
           /\ \A i \in 1..Len(Returned("BleedingCondition")) :
                 Returned("BleedingCondition")[i].severity = Min(10, Max(1, d \div 3))
           /\ Len(Returned("PainCondition")) = (IF d > 0 THEN 1 ELSE 0)
           /\ \A i \in 1..Len(Returned("PainCondition")) :
                 Returned("PainCondition")[i].severity = Min(8, Max(1, d \div 2))
           /\ Len(Returned("InfectionCondition")) <= 1
           /\ Returned("InfectionCondition") # <<>> =>
                 /\ returned.damage_type \in {"bullet", "blade", "pierce"}
                 /\ d >= 8
                 /\ Returned("InfectionCondition")[1].severity \in 1..3
           /\ d <= 0 => returned.conditions = <<>>
           /\ Len(returned.conditions) = Len(Returned("BleedingCondition"))
                 + Len(Returned("PainCondition")) + Len(Returned("InfectionCondition"))

\* a blade wound of exactly the threshold damage bleeds and hurts
C28_Witness ==
    /\ returned.kind = "conditions"
    /\ returned.damage_type = "blade"
    /\ returned.damage_amount = BLEEDING_DAMAGE_THRESHOLD_minor
    /\ Len(returned.conditions) = 2
    /\ returned.conditions[1].cls = "BleedingCondition"
    /\ returned.conditions[1].severity = 1
    /\ returned.conditions[2].cls = "PainCondition"
    /\ returned.conditions[2].severity = 2

\* ------------------------------------------------- joining and leaving
\* add_combatant and remove_combatant called directly on one handler
AddCombatant(h, char, target, initial_grappling, init) ==
    /\ Command
    /\ Commit(add_combatant(St, h, char, target, initial_grappling, None, FALSE, init))
    /\ last' = Last("add_combatant", h, char, target, init,
                    IF already_in_combat(roster[h], char) THEN 1 ELSE 0)

NextRoster ==
    \/ \E char \in Chars, target \in Chars \cup {None},
          initial_grappling \in Chars \cup {None}, init \in Inits :
             AddCombatant("r1", char, target, initial_grappling, init)
    \/ \E c \in Chars : Remove("r1", c)

SpecRoster ==
    Init /\ [][NextRoster]_vars

\* no two entries of the list belong to the same character
OneEntryEach(L) ==
    \A i, j \in 1..Len(L) : L[i].char = L[j].char => i = j

\* C29: after any sequence of add_combatant and remove_combatant calls a
\* roster holds at most one entry per character; adding a character that is
\* already in the roster leaves the roster as it was (initiative, target and
\* grapple fields included); and add_combatant never creates an entry whose
\* target is its own character: a self-target is stored as no target.
C29_RosterEntries ==
    [][last'.op \in {"add_combatant", "remove"} =>
        LET h == last'.h
            char == last'.a
        IN /\ OneEntryEach(roster'[h])
           /\ last'.op = "add_combatant" =>
                 IF already_in_combat(roster[h], char)
                 THEN roster'[h] = roster[h]
                 ELSE LET entry == roster'[h][IndexOf(roster'[h], char)]
                      IN /\ IndexOf(roster'[h], char) # 0
                         /\ entry.target # char
                         /\ last'.b = char => entry.target = None
                         /\ entry.initiative = last'.r1]_vars

\* a character already in the roster of two, with a target, was added again
\* with itself as target and another initiative
C29_Witness ==
    /\ last.op = "add_combatant"
    /\ last.r2 = 1
    /\ last.b = last.a
    /\ LET L == roster[last.h]
       IN /\ Len(L) = 2
          /\ L[IndexOf(L, last.a)].initiative # last.r1
          /\ L[IndexOf(L, last.a)].target # None
          /\ L[IndexOf(L, last.a)].target # last.a

\* C30: exit traversal clears the traverser's proximity relations only when
\* the traverser changes location: a traversal blocked because the character
\* is in combat and the drag conditions are not met leaves the proximity sets
\* of the traverser and of every other character as they were.
C30_BlockedKeepsProximity ==
    [][last'.op = "blocked" => prox' = prox]_vars

\* ------------------------------------------------- leaving a running fight
\* The three characters are already combatants of the handler of room r1,
\* each with a target of its own choice; they grapple, approach, walk through
\* exits and leave combat.
InitBrawl ==
    /\ \E t \in [Chars -> Chars \cup {None}] :
          /\ \A c \in Chars : t[c] # c
          /\ roster = [h \in Rooms |->
                 IF h = "r1"
                 THEN [i \in 1..Cardinality(Chars) |->
                          NewEntry(i, 1, t[i], None, None, FALSE)]
                 ELSE <<>>]
    /\ active = [h \in Rooms |-> <<>>]
    /\ turn = [h \in Rooms |-> <<>>]
    /\ running = [h \in Rooms |-> h = "r1"]
    /\ prox = [c \in Chars |-> {}]
    /\ href = [c \in Chars |-> "r1"]
    /\ loc = [c \in Chars |-> "r1"]
    /\ dead = [c \in Chars |-> FALSE]
    /\ ranged = [c \in Chars |-> FALSE]
    /\ aiming_at = [c \in Chars |-> None]
    /\ aimed_at_by = [c \in Chars |-> None]
    /\ error = FALSE
    /\ last = Last("init", NoHandler, None, None, 0, 0)
    /\ steps = 0
    /\ medical_state = NoMedical
    /\ returned = NoReturn

NextBrawl ==
    \/ \E a \in Chars, b \in Chars : Grapple(a, b)
    \/ \E a \in Chars, b \in Chars : Advance(a, b)
    \/ \E h \in Rooms, g \in Chars, v \in Chars : EstablishGrapple(h, g, v)
    \/ \E h \in Rooms, c \in Chars : Remove(h, c)
    \/ \E c \in Chars, d \in Rooms : Traverse(c, d)

SpecBrawl ==
    InitBrawl /\ [][NextBrawl]_vars

\* every grappling reference of the list joins two characters that stand in
\* each other's proximity
GrappleInProximity(L, P) ==
    \A i \in 1..Len(L) :
        get_character_by_dbref(L[i].grappling) # None =>
            /\ L[i].grappling \in P[L[i].char]
            /\ L[i].char \in P[L[i].grappling]

TraverseOutcomes ==
    {"moved", "blocked", "aim_locked", "drag_resisted", "dragged"}

\* C31: whenever a roster entry A has a grappling reference to B, A and B are
\* in each other's proximity sets; here for establish_grapple, add_combatant
\* with an inherited grapple and every exit traversal attempt, whether it ends
\* in a drag, a resisted drag or a blocked move: a step of these operations
\* taken where the property holds leads to a state where it holds.
C31_GrappleImpliesProximity ==
    [][(/\ last'.op \in TraverseOutcomes \cup {"establish_grapple", "grapple"}
        /\ \A h \in Rooms : GrappleInProximity(roster[h], prox))
       => \A h \in Rooms : GrappleInProximity(roster'[h], prox')]_vars

\* the handlers in whose roster c has an entry
SessionsOf(c) ==
    {h \in Rooms : IndexOf(roster[h], c) # 0}

\* in the roster of h, c grapples a victim, yields, and nobody but that
\* victim targets c
MayDrag(h, c) ==
    LET L == roster[h]
        e == L[IndexOf(L, c)]
    IN /\ e.grappling \in Chars
       /\ e.yielding
       /\ \A i \in 1..Len(L) :
             L[i].target = c => L[i].char \in {c, e.grappling}

\* C32: a character with an entry in a session's roster changes location
\* through an exit only if it grapples a victim, yields and is targeted by
\* nobody but that victim, and then only when the victim does not win the
\* resistance contest; in every other in-combat case at_traverse leaves the
\* character's location and every roster entry unchanged.
C32_CombatantsLeaveOnlyDragging ==
    [][(last'.op \in TraverseOutcomes /\ SessionsOf(last'.a) # {}) =>
        LET c == last'.a
        IN /\ loc'[c] # loc[c] =>
                 /\ \E h \in SessionsOf(c) : MayDrag(h, c)
                 /\ last'.op = "dragged"
                 /\ last'.r1 <= last'.r2
           /\ (\A h \in SessionsOf(c) : ~MayDrag(h, c)) =>
                 /\ loc' = loc
                 /\ roster' = roster]_vars

\* a combatant that grapples, yields and is targeted by the third combatant
\* tried to leave and was blocked
C32_Witness ==
    /\ last.op = "blocked"
    /\ LET L == roster[last.h]
       IN /\ IndexOf(L, last.a) # 0
          /\ L[IndexOf(L, last.a)].grappling \in Chars
          /\ L[IndexOf(L, last.a)].yielding
          /\ \E i \in 1..Len(L) :
                /\ L[i].target = last.a
                /\ L[i].char \notin {last.a, L[IndexOf(L, last.a)].grappling}
    /\ loc[last.a] = last.h

\* C33: validate_and_cleanup_grapple_state reaches a fixpoint in one pass: a
\* second pass right after a first one changes no roster entry, whatever the
\* roster was, also when two entries claimed the same victim or a victim's
\* grappled-by named a grappler that grapples someone else.
C33_ValidateFixpoint ==
    [][(last.op = "validate" /\ last'.op = "validate" /\ last'.h = last.h)
          => roster' = roster]_vars

\* C34: a tick of an untreated Infection never lowers its severity and never
\* raises it above the cap of 10; a tick of a treated Infection never raises
\* its severity and lowers it by at most 1, never below 0; the first tick
\* after the condition was created changes no severity.
C34_InfectionTick ==
    [][(last'.op = "tick_effect" /\ Ticking.cls = "InfectionCondition") =>
        LET before == Ticking.severity
            after == Ticked.severity
        IN IF Ticking.last_progression_check = 0 THEN after = before
           ELSE IF ~Ticking.treated
           THEN after >= before /\ after <= 10
           ELSE after <= before /\ after >= before - 1 /\ after >= 0]_vars

\* an untreated infection that had reached the cap ticked once more
C34_Witness ==
    /\ returned.kind = "tick"
    /\ returned.condition.cls = "InfectionCondition"
    /\ ~returned.condition.treated
    /\ returned.condition.last_progression_check # 0
    /\ returned.condition.severity = 10
    /\ medical_state.conditions[returned.index].severity = 10

\* C35: after any sequence of tick_effect, apply_treatment and medical item
\* effects no condition has a severity below 0; apply_treatment on a condition
\* with severity above 0 sets treated and lowers the severity by at least 1,
\* also below max_severity, which it leaves alone; and should_end is true
\* exactly when the severity is 0 or less.
C35_SeverityFloor ==
    [][/\ \A i \in 1..Len(medical_state'.conditions) :
             /\ medical_state'.conditions[i].severity >= 0
             /\ should_end(medical_state'.conditions[i])
                   <=> medical_state'.conditions[i].severity = 0
       /\ (last'.op = "apply_treatment" /\ medical_state.conditions[1].severity > 0) =>
             /\ medical_state'.conditions[1].treated
             /\ medical_state'.conditions[1].severity
                   <= medical_state.conditions[1].severity - 1
             /\ medical_state'.conditions[1].max_severity
                   = medical_state.conditions[1].max_severity]_vars

\* a treated condition that was treated once more at severity 0 stays at 0,
\* below the severity it was created with, and is due to end
C35_Witness ==
    /\ last.op = "apply_treatment"
    /\ medical_state.conditions # <<>>
    /\ medical_state.conditions[1].treated
    /\ medical_state.conditions[1].severity = 0
    /\ medical_state.conditions[1].max_severity > 1
    /\ should_end(medical_state.conditions[1])

\* ---------------------------------------------------- conditions left alone
\* A Pain or Bleeding condition, untreated or treated once with its severity
\* still above 0, is ticked by the medical script for ever; a roll that can
\* lower the severity is not withheld for ever.
InitHealing ==
    /\ roster = [h \in Rooms |-> <<>>]
    /\ active = [h \in Rooms |-> <<>>]
    /\ turn = [h \in Rooms |-> <<>>]
    /\ running = [h \in Rooms |-> FALSE]
    /\ prox = [c \in Chars |-> {}]
    /\ href = [c \in Chars |-> NoHandler]
    /\ loc = [c \in Chars |-> "r1"]
    /\ dead = [c \in Chars |-> FALSE]
    /\ ranged = [c \in Chars |-> FALSE]
    /\ aiming_at = [c \in Chars |-> None]
    /\ aimed_at_by = [c \in Chars |-> None]
    /\ error = FALSE
    /\ last = Last("init", NoHandler, None, None, 0, 0)
    /\ steps = 0
    /\ \E cls \in {"BleedingCondition", "PainCondition"},
          severity \in 1..MaxSeverity, location \in Locations, treat \in BOOLEAN :
          LET c == Construct(cls, severity, location)
          IN /\ treat => apply_treatment(c).severity > 0
             /\ medical_state = Vitals(<<IF treat THEN apply_treatment(c) ELSE c>>,
                                       100, 0, Units(1))
    /\ returned = NoReturn

\* a tick whose roll lowers the severity
HealingTick ==
    /\ Tick
    /\ \E i \in 1..Len(medical_state.conditions) :
          medical_state'.conditions[i].severity < medical_state.conditions[i].severity

NextHealing ==
    Tick

SpecHealing ==
    InitHealing /\ [][NextHealing]_vars /\ WF_vars(HealingTick)

\* C36: under repeated ticks with fair random rolls and no further damage or
\* treatment every Pain condition and every Bleeding condition eventually
\* reaches severity 0 (should_end becomes true), whether it is untreated or
\* was treated while its severity stayed above 0.
C36_EventuallyEnds ==
    <>(\A i \in 1..Len(medical_state.conditions) :
          should_end(medical_state.conditions[i]))

\* ------------------------------------------------- CmdEscapeGrapple.func
\* the command goes on only past its three early returns: no handler, no
\* entry of the caller, nobody grappling the caller
CanEscape_InCombat(s, caller) ==
    s.href[caller] # NoHandler /\ IndexOf(s.roster[s.href[caller]], caller) # 0

CanEscape(s, caller) ==
    /\ s.href[caller] # NoHandler
    /\ IndexOf(s.roster[s.href[caller]], caller) # 0
    /\ LET L == s.roster[s.href[caller]]
       IN get_character_by_dbref(L[IndexOf(L, caller)].grappled_by) # None

CmdEscapeGrapple_func(s, caller) ==
    IF ~CanEscape(s, caller) THEN s
    ELSE LET h == s.href[caller]
             k == IndexOf(s.roster[h], caller)
         IN [s EXCEPT !.roster[h][k].yielding = FALSE,
                      !.roster[h][k].action = "escape_grapple"]

Escape(caller) ==
    /\ Command
    /\ Commit(CmdEscapeGrapple_func(St, caller))
    /\ last' = Last("escape", href[caller], caller, None, 0, 0)

NextEscape ==
    \/ \E c \in Chars : Escape(c)
    \/ \E h \in Rooms, g \in Chars, v \in Chars : EstablishGrapple(h, g, v)
    \/ \E h \in Rooms, c \in Chars : Remove(h, c)

SpecEscape ==
    InitBrawl /\ [][NextEscape]_vars

\* c has a roster entry that names a character as its grappler
IsGrappled(c) ==
    \E h \in SessionsOf(c) :
        roster[h][IndexOf(roster[h], c)].grappled_by \in Chars

\* C37: the escape command of a combatant who is grappled sets that
\* combatant's yielding flag to false and its pending action to escape, before
\* any contest is resolved, and changes no grapple reference; issued by a
\* character who is not in combat or not grappled it changes no field of any
\* roster entry.
C37_EscapeCommand ==
    [][last'.op = "escape" =>
        LET c == last'.a
        IN IF IsGrappled(c)
           THEN /\ \A h \in SessionsOf(c) :
                      LET e == roster'[h][IndexOf(roster'[h], c)]
                      IN ~e.yielding /\ e.action = "escape_grapple"
                /\ \A h \in Rooms : GrappleRefs(roster'[h]) = GrappleRefs(roster[h])
                /\ active' = active
                /\ prox' = prox
           ELSE roster' = roster]_vars

\* a grappled combatant that was yielding has just issued escape
C37_Witness ==
    /\ last.op = "escape"
    /\ IsGrappled(last.a)
    /\ \E h \in SessionsOf(last.a) :
          LET L == roster[h]
              e == L[IndexOf(L, last.a)]
          IN /\ e.action = "escape_grapple"
             /\ ~e.yielding
             /\ L[IndexOf(L, e.grappled_by)].yielding

\* -------------------------------------------------- handler references
\* cleanup_all_combatants: every entry's character is cleaned up, then the
\* roster is emptied
RECURSIVE CleanupEach(_, _, _)
CleanupEach(s, h, entries) ==
    IF entries = <<>> THEN s
    ELSE CleanupEach(cleanup_combatant_state(s, Head(entries).char, Head(entries), h),
                     h, Tail(entries))

cleanup_all_combatants(s, h) ==
    [CleanupEach(s, h, s.roster[h]) EXCEPT !.roster[h] = <<>>]

CleanupAll(h) ==
    /\ Command
    /\ roster[h] # <<>>
    /\ Commit(cleanup_all_combatants(St, h))
    /\ last' = Last("cleanup_all", h, None, None, Len(roster[h]), 0)

\* validate_character_handler_reference: is_valid of the returned triple
validate_character_handler_reference(s, char) ==
    s.href[char] # NoHandler /\ already_in_combat(s.roster[s.href[char]], char)

\* a character joins the fight of the room it stands in
Join(char, target) ==
    AddCombatant(loc[char], char, target, None, 1)

NextSessions ==
    \/ \E char \in Chars, target \in Chars \cup {None} : Join(char, target)
    \/ \E h \in Rooms, g \in Chars, v \in Chars : EstablishGrapple(h, g, v)
    \/ \E h \in Rooms, c \in Chars : Remove(h, c)
    \/ \E h \in Rooms : CleanupAll(h)
    \/ \E c \in Chars, d \in Rooms : Traverse(c, d)

\* the listed operations alone, outside any round, from a running fight
SpecSessions ==
    InitBrawl /\ [][NextSessions]_vars

\* C38: after any sequence of add_combatant, remove_combatant,
\* cleanup_all_combatants and drag transfers a character's combat-handler
\* reference names session H only if the character has an entry in H's
\* roster, and a character with an entry in H's roster has its reference set
\* to H.  (Holds under SpecSessions and SpecBrawl; under Spec two removals in
\* one round write the working list, which still holds the first removed
\* character, back to the roster.)
C38_HandlerReference ==
    \A c \in Chars :
        /\ href[c] # NoHandler => validate_character_handler_reference(St, c)
        /\ \A h \in Rooms : already_in_combat(roster[h], c) => href[c] = h

\* ---------------------------------------------------- several aimers
\* CmdAim.func with "stop": the caller's aim is dropped, and the target's
\* aimed_at_by only when it names the caller
CmdAim_stop(s, caller) ==
    LET current_target == s.aiming_at[caller]
    IN IF current_target = None THEN s
       ELSE [s EXCEPT !.aiming_at[caller] = None,
                      !.aimed_at_by[current_target] = IF @ = caller THEN None ELSE @]

AimStop(caller) ==
    /\ Command
    /\ Commit(CmdAim_stop(St, caller))
    /\ last' = Last("aim_stop", loc[caller], caller, aiming_at[caller], 0, 0)

\* one character of the room already aims at another
InitStandoff ==
    /\ roster = [h \in Rooms |-> <<>>]
    /\ active = [h \in Rooms |-> <<>>]
    /\ turn = [h \in Rooms |-> <<>>]
    /\ running = [h \in Rooms |-> FALSE]
    /\ prox = [c \in Chars |-> {}]
    /\ href = [c \in Chars |-> NoHandler]
    /\ loc = [c \in Chars |-> "r1"]
    /\ dead = [c \in Chars |-> FALSE]
    /\ ranged = [c \in Chars |-> FALSE]
    /\ \E caller \in Chars, target \in Chars :
          /\ target # caller
          /\ aiming_at = [c \in Chars |-> IF c = caller THEN target ELSE None]
          /\ aimed_at_by = [c \in Chars |-> IF c = target THEN caller ELSE None]
    /\ error = FALSE
    /\ last = Last("init", NoHandler, None, None, 0, 0)
    /\ steps = 0
    /\ medical_state = NoMedical
    /\ returned = NoReturn

NextStandoff ==
    \/ \E a \in Chars, b \in Chars : Aim(a, b)
    \/ \E a \in Chars : AimStop(a)
    \/ \E c \in Chars, d \in Rooms : Traverse(c, d)

SpecStandoff ==
    InitStandoff /\ [][NextStandoff]_vars

\* the characters in T's location whose aiming_at is T
AimersOf(T) ==
    {a \in Chars \ {T} : aiming_at[a] = T /\ loc[a] = loc[T]}

\* C39: while at least one character in the same location has T as its
\* aiming_at target, an exit traversal by T is blocked and T's location does
\* not change, also when two or more characters aim at T and one of them
\* stops aiming or re-aims elsewhere while another keeps aiming at T.
C39_AimLockBlocks ==
    [][(last'.op \in TraverseOutcomes /\ AimersOf(last'.a) # {}) =>
          (last'.op = "aim_locked" /\ loc'[last'.a] = loc[last'.a])]_vars

\* ------------------------------------------------------------ CmdDisarm.func
\* CombatHandler.get_target: the character the caller's entry targets
get_target(L, char) ==
    IF IndexOf(L, char) = 0 THEN None
    ELSE get_character_by_dbref(L[IndexOf(L, char)].target)

\* a disarm that does not ask for melee proximity
DisarmRefused_NoTarget(s, caller) ==
    s.href[caller] = NoHandler \/ get_target(s.roster[s.href[caller]], caller) = None

\* the early returns: not in combat, no target, target not in proximity
DisarmRefused(s, caller) ==
    \/ s.href[caller] = NoHandler
    \/ get_target(s.roster[s.href[caller]], caller) = None
    \/ get_target(s.roster[s.href[caller]], caller) \notin s.prox[caller]

\* the entry gains the queued action and its target
CmdDisarm_func(s, caller) ==
    IF DisarmRefused(s, caller) THEN s
    ELSE LET h == s.href[caller]
             L == s.roster[h]
             k == IndexOf(L, caller)
             entry == [x \in DOMAIN L[k] \cup {"action_target"} |->
                          IF x = "action" THEN "disarm"
                          ELSE IF x = "action_target" THEN get_target(L, caller)
                          ELSE L[k][x]]
         IN [s EXCEPT !.roster[h] = [L EXCEPT ![k] = entry],
                      !.running[h] = TRUE]

Disarm(caller) ==
    /\ Command
    /\ Commit(CmdDisarm_func(St, caller))
    /\ last' = Last("cmd_disarm", href[caller], caller,
                    IF href[caller] = NoHandler THEN None
                    ELSE get_target(roster[href[caller]], caller), 0, 0)

\* a running fight with commands queued and resolved round by round; nobody
\* stands in proximity at first, an established grapple brings it
NextScuffle ==
    \/ \E a \in Chars, b \in Chars : Grapple(a, b)
    \/ \E c \in Chars : Release(c)
    \/ \E c \in Chars : Disarm(c)
    \/ \E h \in Rooms, g \in Chars, v \in Chars : EstablishGrapple(h, g, v)
    \/ \E h \in Rooms, c \in Chars : Remove(h, c)
    \/ \E h \in Rooms : BeginRound(h)
    \/ \E h \in Rooms : ResolveTurn(h)
    \/ \E h \in Rooms : EndRound(h)

SpecScuffle ==
    InitBrawl /\ [][NextScuffle]_vars

\* the acting entry e of working list L fails a precondition of its queued
\* action; P is the proximity map
InitiateFails(L, e, P) ==
    \/ get_character_by_dbref(e.target) = None
    \/ IndexOf(L, e.target) = 0
    \/ e.target \notin P[e.char]

JoinFails(L, e, P) ==
    \/ get_character_by_dbref(e.target) = None
    \/ IndexOf(L, e.target) = 0
    \/ /\ IndexOf(L, e.target) # 0
       /\ LET g == L[IndexOf(L, e.target)].grappled_by
          IN g = None \/ get_character_by_dbref(g) = None \/ IndexOf(L, g) = 0
    \/ e.target \notin P[e.char]

ReleaseFails(L, e) ==
    get_character_by_dbref(e.grappling) = None

PreconditionFails ==
    LET L == active[last'.h]
        e == Pre(last'.a)
    IN \/ last'.op = "grapple_initiate" /\ InitiateFails(L, e, prox)
       \/ last'.op = "grapple_join" /\ JoinFails(L, e, prox)
       \/ last'.op = "release_grapple" /\ ReleaseFails(L, e)

====
